---------------------------- MODULE Spec2Model ----------------------------
(***************************************************************************)
(* A model of the anomaly-detection core of StormPhase2:                   *)
(*   src/src/preprocess.py  event lengths and label filters                *)
(*   src/src/methods.py     threshold optimisation, prediction, the SPC    *)
(*                          engine with its caches, the ensembles          *)
(* Real numbers are exact rationals <<n, d>> with d > 0 in lowest terms.   *)
(* Sequences are 1-based here; the Python index i is i+1.                  *)
(***************************************************************************)
EXTENDS Integers, Sequences, FiniteSets, TLC

(***************************************************************************)
(* Bounds of the model.                                                    *)
(***************************************************************************)
\* longest label sequence of a station handed to the event-length analyser
MaxLen == 4

\* most samples of a batch handed to a threshold optimiser
MaxSamples == 3

\* interpolation_range_length, the number of points of the threshold grid
\* (1000 by default in the code)
InterpLen == 3

\* largest moving-average window of an engine
MaxWindow == 3

\* longest station of a batch handed to an engine
MaxStationLen == 2

\* most engines of a StackEnsemble
MaxEngines == 2

\* largest moving-average window of the engines of a SequentialEnsemble
MaxSegWindow == 2

\* number of fit_transform_predict calls followed on one engine
MaxCalls == 2

VARIABLES
    \* ---- preprocess.py: one station going through the analyser
    y_df,            \* the station's label column
    length_df,       \* result of get_event_lengths (<<>> before the call)
    pre_args,        \* arguments of the last get_label_filters_for_all_cutoffs
    label_filters,   \* its result: cutoff -> exclusion mask
    pre_pc,          \* "raw" | "lengths" | "filters"
    \* ---- methods.py: a SingleThresholdMethod and a DoubleThresholdMethod
    thr_batch,       \* y_dfs, y_scores_dfs, label_filters_for_all_cutoffs
    single,          \* attributes of the SingleThresholdMethod object
    double,          \* attributes of the DoubleThresholdMethod object
    thr_call,        \* the last call on either object and how it ended
    thr_pred,        \* y_prediction_dfs of the last predict_from_scores_dfs
    \* ---- methods.py: a SingleThresholdStatisticalProcessControl engine
    spc,             \* the engine object's attributes (its __dict__)
    spc_data,        \* the preprocessed batch of every split (immutable)
    files,           \* the model pickle; per split: scores.pickle, predictions
    spc_call,        \* the last fit_transform_predict: arguments and outcome
    spc_calls,       \* number of fit_transform_predict calls so far
    spc_fit,         \* the last persisted fit, while its round trip is open
    \* ---- methods.py: a StackEnsemble, a SequentialEnsemble or a
    \* ---- BinarySegmentation engine
    ens,             \* the ensemble object's attributes, its engines included
    ens_data,        \* the preprocessed batch the ensemble is called on
    ens_files,       \* the pickles of the ensemble and of its engines
    ens_call,        \* the last fit_transform_predict: arguments and outcome
    ens_calls,       \* number of fit_transform_predict calls so far
    \* ---- methods.py: the worker pool of an ARIMA engine
    pool,            \* the stations, their futures and the collected results
    \* ---- methods.py: processes saving and loading one model pickle
    disk,            \* the file at the model path: whether it exists, its bytes
    procs,           \* per process: what it runs, where it is, what it read
    \* ---- a function of preprocess.py or methods.py called on its own
    call             \* its name, its arguments and what it returned

preVars == <<y_df, length_df, pre_args, label_filters, pre_pc>>
thrVars == <<thr_batch, single, double, thr_call, thr_pred>>
spcVars == <<spc, spc_data, files, spc_call, spc_calls, spc_fit>>
ensVars == <<ens, ens_data, ens_files, ens_call, ens_calls>>
concVars == <<pool, disk, procs>>
funVars == <<call>>
vars == <<preVars, thrVars, spcVars, ensVars, concVars, funVars>>

\* A component a specification does not exercise stays unconstructed.
PreIdle ==
    /\ y_df = <<>> /\ length_df = <<>> /\ pre_args = <<>>
    /\ label_filters = <<>> /\ pre_pc = "idle"

ThrIdle ==
    /\ thr_batch = <<>> /\ single = <<>> /\ double = <<>>
    /\ thr_call = <<>> /\ thr_pred = <<>>

SpcIdle ==
    /\ spc = <<>> /\ spc_data = <<>> /\ files = <<>>
    /\ spc_call = <<>> /\ spc_calls = 0 /\ spc_fit = <<>>

EnsIdle ==
    /\ ens = <<>> /\ ens_data = <<>> /\ ens_files = <<>>
    /\ ens_call = <<>> /\ ens_calls = 0

ConcIdle ==
    /\ pool = <<>> /\ disk = <<>> /\ procs = <<>>

FunIdle == call = <<>>

(***************************************************************************)
(* Generic helpers.                                                        *)
(***************************************************************************)
Range(s) == {s[i] : i \in DOMAIN s}

SeqsUpTo(S, n) == UNION {[1..k -> S] : k \in 0..n}

\* An array or dict holding its entries, as opposed to a rule to compute them.
Array(f) == f @@ <<>>

Min2(a, b) == IF a <= b THEN a ELSE b

Max2(a, b) == IF a >= b THEN a ELSE b

MaxNat(S) == CHOOSE x \in S : \A y \in S : y <= x

MinNat(S) == CHOOSE x \in S : \A y \in S : x <= y

(***************************************************************************)
(* Event-length cutoffs.  A cutoff (lo, hi) is <<lo, hi, FALSE>>; the      *)
(* cutoff (lo, np.inf) is <<lo, lo, TRUE>>.                                *)
(***************************************************************************)
Cut(lo, hi) == <<lo, hi, FALSE>>

CutInf(lo) == <<lo, lo, TRUE>>

\* length > low_cutoff and length <= high_cutoff   (preprocess.py:27)
InCutoffUpperStrict(len, c) == len > c[1] /\ (c[3] \/ len < c[2])

InCutoff(len, c) == len > c[1] /\ (c[3] \/ len <= c[2])

\* The cutoff lists a caller configures: the canonical list
\* [(0,24],(24,288],(288,4032],(4032,inf)] scaled down to the lengths
\* the bounded stations can show, a single bucket, and a list with a gap.
CutoffConfigs ==
    { <<CutInf(0)>>,
      <<Cut(0, 1), CutInf(1)>>,
      <<Cut(0, 2), CutInf(2)>>,
      <<Cut(0, 1), Cut(1, 2), CutInf(2)>>,
      <<Cut(0, 1), CutInf(2)>> }

\* labels after label_transform_dict: normal, anomalous, uncertain
Labels == {0, 1, 5}

uncertain_codes == {5}

(***************************************************************************)
(* preprocess.py: get_event_lengths                                        *)
(***************************************************************************)
\* lengths[event_start_index:event_end_index] = event_end_index - event_start_index
\* (start, end are the 1-based first index and the 1-based index after the last)
SetSlice(lengths, start, end, v) ==
    [k \in DOMAIN lengths |-> IF k >= start /\ k < end THEN v ELSE lengths[k]]

RECURSIVE EventLoop(_, _, _, _, _)
EventLoop(y, i, event_started, event_start_index, lengths) ==
    IF i > Len(y) THEN <<event_started, event_start_index, lengths>>
    ELSE IF event_started
         THEN IF y[i] # 1
              THEN EventLoop(y, i + 1, FALSE, event_start_index,
                             SetSlice(lengths, event_start_index, i, i - event_start_index))
              ELSE EventLoop(y, i + 1, TRUE, event_start_index, lengths)
         ELSE IF y[i] = 1
              THEN EventLoop(y, i + 1, TRUE, i, lengths)
              ELSE EventLoop(y, i + 1, FALSE, event_start_index, lengths)

\* a variant that forgets the event still open at the end of the series
get_event_lengths_no_close(y) ==
    EventLoop(y, 1, FALSE, 0, [k \in 1..Len(y) |-> 0])[3]

get_event_lengths(y) ==
    LET r == EventLoop(y, 1, FALSE, 0, [k \in 1..Len(y) |-> 0])
        end == Len(y) + 1      \* i + 1 with i the last loop index
    IN  IF r[1] THEN SetSlice(r[3], r[2], end, end - r[2]) ELSE r[3]

(***************************************************************************)
(* preprocess.py: get_label_filters_for_all_cutoffs                        *)
(***************************************************************************)
\* partial_filter[str(cutoffs)]
partial_filter_upper_strict(lengths, c) ==
    [i \in DOMAIN lengths |-> InCutoffUpperStrict(lengths[i], c)]

partial_filter(lengths, c) == [i \in DOMAIN lengths |-> InCutoff(lengths[i], c)]

\* np.isin(y_df["label"], uncertain_filter)
uncertain_mask_none(y) == [i \in DOMAIN y |-> FALSE]

uncertain_mask(y) == [i \in DOMAIN y |-> y[i] \in uncertain_codes]

\* the result is keyed by str(cutoffs); the cutoff itself is the key here
get_label_filters_for_all_cutoffs(y, lengths, all_cutoffs, remove_missing, missing) ==
    [c \in Range(all_cutoffs) |->
        LET other_cutoffs == Range(all_cutoffs) \ {c}
        IN  [i \in DOMAIN y |->
                \/ uncertain_mask(y)[i]
                \/ \E o \in other_cutoffs : partial_filter(lengths, o)[i]
                \/ (remove_missing /\ missing[i] # 0)]]

(***************************************************************************)
(* The analyser as a state machine: a station's labels, then its event     *)
(* lengths, then its filter bank (preprocess_per_batch_and_write, the      *)
(* event-length and label-filter stages).                                  *)
(***************************************************************************)
NoArgs == [all_cutoffs |-> <<>>, remove_missing |-> FALSE, missing |-> <<>>]

InitPre ==
    /\ y_df \in SeqsUpTo(Labels, MaxLen)
    /\ length_df = <<>>
    /\ pre_args = NoArgs
    /\ label_filters = <<>>
    /\ pre_pc = "raw"
    /\ ThrIdle
    /\ SpcIdle
    /\ EnsIdle
    /\ ConcIdle
    /\ FunIdle

GetEventLengths ==
    /\ pre_pc = "raw"
    /\ length_df' = get_event_lengths(y_df)
    /\ pre_pc' = "lengths"
    /\ UNCHANGED <<y_df, pre_args, label_filters, thrVars, spcVars, ensVars, concVars, funVars>>

GetLabelFilters ==
    /\ pre_pc = "lengths"
    /\ \E all_cutoffs \in CutoffConfigs, remove_missing \in BOOLEAN :
       \E missing \in [DOMAIN y_df -> {0, 1}] :
          /\ (~remove_missing => \A i \in DOMAIN y_df : missing[i] = 0)
          /\ pre_args' = [all_cutoffs |-> all_cutoffs,
                          remove_missing |-> remove_missing, missing |-> missing]
          /\ label_filters' = get_label_filters_for_all_cutoffs(
                                  y_df, length_df, all_cutoffs, remove_missing, missing)
    /\ pre_pc' = "filters"
    /\ UNCHANGED <<y_df, length_df, thrVars, spcVars, ensVars, concVars, funVars>>

NextPre == GetEventLengths \/ GetLabelFilters

SpecPre == InitPre /\ [][NextPre]_vars

(***************************************************************************)
(* Claims about the event-length analyser (checked under SpecPre).         *)
(***************************************************************************)
\* the maximal run of label 1 around index i, counted directly on the labels
RunAround(y, i) ==
    {j \in DOMAIN y : \A k \in Min2(i, j)..Max2(i, j) : y[k] = 1}

\* lo < len <= hi, written out for the claims
LengthInBucket(len, c) == c[1] < len /\ (c[3] \/ ~(len > c[2]))

\* every positive length falls in some bucket of the list
CoversPositiveLengths(all_cutoffs) ==
    \A len \in 1..(MaxLen + 1) : \E c \in Range(all_cutoffs) : LengthInBucket(len, c)

KeptIn(c, i) == ~label_filters[c][i]

\* C3: after get_event_lengths, the entry at every index is the length of
\* the maximal contiguous run of label 1 containing it, and 0 where the
\* label is not 1 (so all ones give N, all zeros give 0, and a run open at
\* the end of the series is closed at N).
C3_EventLengths ==
    pre_pc \in {"lengths", "filters"} =>
        /\ Len(length_df) = Len(y_df)
        /\ \A i \in DOMAIN y_df : length_df[i] = Cardinality(RunAround(y_df, i))

\* a series of at least three labels that ends inside an event
C3_Witness ==
    /\ pre_pc = "lengths"
    /\ Len(y_df) >= 3
    /\ y_df[Len(y_df)] = 1 /\ y_df[Len(y_df) - 1] = 1
    /\ \E i \in DOMAIN y_df : y_df[i] # 1
    /\ length_df[Len(y_df)] >= 2

AbsInt(n) == IF n < 0 THEN -n ELSE n

RECURSIVE GCD(_, _)
GCD(a, b) == IF b = 0 THEN a ELSE GCD(b, a % b)

Rat(n, d) ==
    LET g == GCD(AbsInt(n), AbsInt(d))
    IN  IF d < 0 THEN <<(-n) \div g, (-d) \div g>> ELSE <<n \div g, d \div g>>

RInt(n) == <<n, 1>>

RZero == <<0, 1>>

ROne == <<1, 1>>

RAdd(a, b) == Rat(a[1] * b[2] + b[1] * a[2], a[2] * b[2])

RSub(a, b) == Rat(a[1] * b[2] - b[1] * a[2], a[2] * b[2])

RMul(a, b) == Rat(a[1] * b[1], a[2] * b[2])

RDiv(a, b) == Rat(a[1] * b[2], a[2] * b[1])

RNeg(a) == <<-a[1], a[2]>>

RAbs(a) == <<AbsInt(a[1]), a[2]>>

RLt(a, b) == a[1] * b[2] < b[1] * a[2]

RLe(a, b) == a[1] * b[2] <= b[1] * a[2]

RInf == <<1, 0>>

RNegInf == <<-1, 0>>

RECURSIVE RSum(_)
RSum(s) == IF s = <<>> THEN RZero ELSE RAdd(Head(s), RSum(Tail(s)))

RMinSet(S) == CHOOSE x \in S : \A y \in S : RLe(x, y)

RMaxSet(S) == CHOOSE x \in S : \A y \in S : RLe(y, x)

RECURSIVE SortDescSet(_)
SortDescSet(S) ==
    IF S = {} THEN <<>>
    ELSE LET m == RMaxSet(S) IN <<m>> \o SortDescSet(S \ {m})

Reverse(s) == Array([i \in 1..Len(s) |-> s[Len(s) + 1 - i]])

(***************************************************************************)
(* numpy                                                                   *)
(***************************************************************************)
\* np.linspace(start, stop, num): num points, both ends included
np_linspace(start, stop, num) ==
    Array([j \in 1..num |->
        IF num = 1 THEN start
        ELSE RAdd(start, RMul(Rat(j - 1, num - 1), RSub(stop, start)))])

\* np.interp(x, xp, fp) for increasing xp: fp[0] left of xp, fp[-1] right of
\* it, the chord between the two neighbours inside
np_interp(x, xp, fp) ==
    IF RLe(x, xp[1]) THEN fp[1]
    ELSE IF RLe(xp[Len(xp)], x) THEN fp[Len(xp)]
    ELSE LET j == CHOOSE j \in 1..(Len(xp) - 1) : RLe(xp[j], x) /\ RLt(x, xp[j + 1])
         IN  RAdd(fp[j],
                  RMul(RSub(x, xp[j]),
                       RDiv(RSub(fp[j + 1], fp[j]), RSub(xp[j + 1], xp[j]))))

\* np.argmax: the first index of the largest value
np_argmax(v) ==
    CHOOSE i \in DOMAIN v :
        /\ \A j \in DOMAIN v : RLe(v[j], v[i])
        /\ \A j \in DOMAIN v : j < i => RLt(v[j], v[i])

(***************************************************************************)
(* sklearn.metrics, on an array of <<label, score>> pairs                  *)
(***************************************************************************)
\* _binary_clf_curve: one point per distinct score, thresholds decreasing;
\* tps/fps count the label-1 / other samples with score >= threshold
clf_counts(pairs, thresholds) ==
    [fps |-> Array([k \in DOMAIN thresholds |->
                 Cardinality({i \in DOMAIN pairs :
                     pairs[i][1] # 1 /\ RLe(thresholds[k], pairs[i][2])})]),
     tps |-> Array([k \in DOMAIN thresholds |->
                 Cardinality({i \in DOMAIN pairs :
                     pairs[i][1] = 1 /\ RLe(thresholds[k], pairs[i][2])})]),
     thresholds |-> thresholds]

binary_clf_curve(pairs) ==
    clf_counts(pairs, SortDescSet({pairs[i][2] : i \in DOMAIN pairs}))

\* precision = tps / (tps + fps); recall = tps / tps[-1], all ones when there
\* is no label-1 sample
clf_precision(c) ==
    Array([k \in DOMAIN c.tps |-> Rat(c.tps[k], c.tps[k] + c.fps[k])])

clf_recall(c) ==
    Array([k \in DOMAIN c.tps |->
        IF c.tps[Len(c.tps)] = 0 THEN ROne ELSE Rat(c.tps[k], c.tps[Len(c.tps)])])

\* the curve reversed to increasing thresholds, closed by precision 1, recall 0
precision_recall_of(c) ==
    [precision |-> Append(Reverse(clf_precision(c)), ROne),
     recall |-> Append(Reverse(clf_recall(c)), RZero),
     thresholds |-> Reverse(c.thresholds)]

\* precision_recall_curve: thresholds increasing, precision and recall one
\* entry longer than thresholds
precision_recall_curve(pairs) == precision_recall_of(binary_clf_curve(pairs))

(***************************************************************************)
(* evaluation.py and helper_functions.py (not part of the sources at hand) *)
(***************************************************************************)
\* beta = 1.5, as beta squared
beta_squared == <<9, 4>>

\* f_beta(precision, recall, beta) = (1+b^2) P R / (b^2 P + R); 0 when P=R=0
f_beta(precision, recall) ==
    LET den == RAdd(RMul(beta_squared, precision), recall)
    IN  IF den = RZero THEN RZero
        ELSE RDiv(RMul(RAdd(ROne, beta_squared), RMul(precision, recall)), den)

\* f_beta_from_confmat(fps, tps, fns, beta)
\*   = (1+b^2) tp / ((1+b^2) tp + b^2 fn + fp); 0 when all three are 0
f_beta_from_confmat(fps, tps, fns) ==
    LET num == RMul(RAdd(ROne, beta_squared), tps)
        den == RAdd(num, RAdd(RMul(beta_squared, fns), fps))
    IN  IF den = RZero THEN RZero ELSE RDiv(num, den)

\* the <<label, score>> pairs of one station that filter f keeps
RECURSIVE KeptPairs(_, _, _, _)
KeptPairs(y, score, f, i) ==
    IF i > Len(y) THEN <<>>
    ELSE (IF f[i] THEN <<>> ELSE << <<y[i], score[i]>> >>) \o KeptPairs(y, score, f, i + 1)

\* filter_label_and_scores_to_array: labels and scores of all stations,
\* concatenated, without the samples the cutoff's filter excludes
RECURSIVE FilterFrom(_, _, _, _, _)
FilterFrom(y_dfs, y_scores_dfs, lf, cutoffs, k) ==
    IF k > Len(y_dfs) THEN <<>>
    ELSE KeptPairs(y_dfs[k], y_scores_dfs[k], lf[k][cutoffs], 1)
         \o FilterFrom(y_dfs, y_scores_dfs, lf, cutoffs, k + 1)

filter_label_and_scores_to_array(y_dfs, y_scores_dfs, lf, cutoffs) ==
    FilterFrom(y_dfs, y_scores_dfs, lf, cutoffs, 1)

\* a station's mask selects from its labels and from its scores: it cannot be
\* applied (IndexError) unless all three have the same number of entries
MasksFit(y_dfs, y_scores_dfs, lf) ==
    /\ Len(y_scores_dfs) = Len(y_dfs)
    /\ Len(lf) = Len(y_dfs)
    /\ \A k \in DOMAIN y_dfs : \A c \in DOMAIN lf[k] :
          Len(lf[k][c]) = Len(y_dfs[k]) /\ Len(y_scores_dfs[k]) = Len(y_dfs[k])

(***************************************************************************)
(* methods.py: SingleThresholdMethod                                       *)
(* An object is a record of its attributes; an attribute not yet assigned  *)
(* holds <<>>.  A method returns [self |-> the object afterwards,          *)
(* raised |-> whether it ended in an exception].                           *)
(***************************************************************************)
\* SingleThresholdMethod.__init__
SingleThresholdMethod_init ==
    [scores_calculated |-> FALSE,
     threshold_optimization_method |-> "SingleThreshold",
     all_cutoffs |-> {},
     recall |-> <<>>, precision |-> <<>>, thresholds |-> <<>>,
     scores |-> <<>>,
     optimal_threshold |-> <<>>]

Returned(self) == [self |-> self, raised |-> FALSE]

Raised(self) == [self |-> self, raised |-> TRUE]

\* np.abs(filtered_y_scores), which_threshold == "symmetrical"
SymmetricalPairs(pairs) ==
    Array([i \in DOMAIN pairs |-> <<pairs[i][1], RAbs(pairs[i][2])>>])

\* min_threshold = 0, lowered by every bucket's smallest threshold
\* max_threshold = 0, raised by every bucket's largest threshold
GlobalMinThreshold(curves) ==
    RMinSet({RZero} \cup UNION {Range(curves[c].thresholds) : c \in DOMAIN curves})

GlobalMaxThreshold(curves) ==
    RMaxSet({RZero} \cup UNION {Range(curves[c].thresholds) : c \in DOMAIN curves})

DropLast(s) == SubSeq(s, 1, Len(s) - 1)

\* _calculate_interpolated_recall_precision, which_threshold = "symmetrical":
\* (1) the filtered arrays of every bucket, (2) their precision-recall curves
\* (precision_recall_curve raises on a bucket that keeps no sample), (3) the
\* common grid, (4) the curves interpolated on the grid
Single_interpolate_on(prc, interpolation_range_) ==
    [raised |-> FALSE,
     recall |-> Array([c \in DOMAIN prc |->
         Array([g \in DOMAIN interpolation_range_ |->
             np_interp(interpolation_range_[g], prc[c].thresholds,
                       DropLast(prc[c].recall))])]),
     precision |-> Array([c \in DOMAIN prc |->
         Array([g \in DOMAIN interpolation_range_ |->
             np_interp(interpolation_range_[g], prc[c].thresholds,
                       DropLast(prc[c].precision))])]),
     thresholds |-> interpolation_range_]

Single_interpolate(prc, interp_len) ==
    Single_interpolate_on(prc,
        np_linspace(GlobalMaxThreshold(prc), GlobalMinThreshold(prc), interp_len))

Single_curves(arr, interp_len) ==
    IF \E c \in DOMAIN arr : arr[c] = <<>>
    THEN [raised |-> TRUE]
    ELSE Single_interpolate(
             Array([c \in DOMAIN arr |-> precision_recall_curve(arr[c])]), interp_len)

Single_calculate_interpolated_recall_precision(y_dfs, y_scores_dfs, lf, interp_len) ==
    IF ~MasksFit(y_dfs, y_scores_dfs, lf)
    THEN [raised |-> TRUE]
    ELSE Single_curves(
             Array([c \in DOMAIN lf[1] |->
                 SymmetricalPairs(
                     filter_label_and_scores_to_array(y_dfs, y_scores_dfs, lf, c))]),
             interp_len)

\* _calculate_interpolated_scores: the F-beta of every used bucket on the grid
Single_calculate_interpolated_scores(recall, precision, used_cutoffs) ==
    Array([c \in Range(used_cutoffs) |->
        Array([g \in DOMAIN recall[c] |-> f_beta(precision[c][g], recall[c][g])])])

\* _find_max_score_index_for_cutoffs: arg-max of the mean over the used buckets
Single_find_max_score_index_for_cutoffs(scores_over_cutoffs, used_cutoffs) ==
    np_argmax(Array(
        [g \in DOMAIN scores_over_cutoffs[used_cutoffs[1]] |->
            RDiv(RSum([k \in DOMAIN used_cutoffs |-> scores_over_cutoffs[used_cutoffs[k]][g]]),
                 RInt(Len(used_cutoffs)))]))

\* calculate_and_set_thresholds; raises (KeyError) when the interpolated
\* curves do not hold every used bucket
Single_set_thresholds(self, scores, used_cutoffs) ==
    Returned([self EXCEPT
        !.scores = scores,
        !.optimal_threshold =
            self.thresholds[Single_find_max_score_index_for_cutoffs(scores, used_cutoffs)]])

Single_calculate_and_set_thresholds(self, used_cutoffs) ==
    IF ~(Range(used_cutoffs) \subseteq DOMAIN self.recall)
    THEN Raised(self)
    ELSE Single_set_thresholds(self,
             Single_calculate_interpolated_scores(self.recall, self.precision, used_cutoffs),
             used_cutoffs)

\* optimize_thresholds, after all_cutoffs has been set: the curves are
\* computed on the first call or when recalculate_scores is set
Single_store_curves(self, r, used_cutoffs) ==
    IF r.raised THEN Raised(self)
    ELSE Single_calculate_and_set_thresholds(
             [self EXCEPT !.recall = r.recall, !.precision = r.precision,
                          !.thresholds = r.thresholds, !.scores_calculated = TRUE],
             used_cutoffs)

Single_optimize_with_cutoffs(self, y_dfs, y_scores_dfs, lf, used_cutoffs, recalculate_scores, interp_len) ==
    IF ~(Range(used_cutoffs) \subseteq self.all_cutoffs)
    THEN Raised(self)
    ELSE IF ~self.scores_calculated \/ recalculate_scores
         THEN Single_store_curves(self,
                  Single_calculate_interpolated_recall_precision(
                      y_dfs, y_scores_dfs, lf, interp_len),
                  used_cutoffs)
         ELSE Single_calculate_and_set_thresholds(self, used_cutoffs)

\* optimize_thresholds
Single_optimize_thresholds(self, y_dfs, y_scores_dfs, lf, used_cutoffs, recalculate_scores, interp_len) ==
    IF lf = <<>>
    THEN Returned([self EXCEPT !.optimal_threshold = RInf])
    ELSE Single_optimize_with_cutoffs(
             [self EXCEPT !.all_cutoffs = DOMAIN lf[1]],
             y_dfs, y_scores_dfs, lf, used_cutoffs, recalculate_scores, interp_len)

\* pred[np.abs(np.squeeze(score)) >= self.optimal_threshold] = 1
SinglePredict(score, optimal_threshold) ==
    [i \in DOMAIN score |-> IF RLe(optimal_threshold, RAbs(score[i])) THEN 1 ELSE 0]

\* predict_from_scores_dfs
Single_predict_from_scores_dfs(self, y_scores_dfs) ==
    [k \in DOMAIN y_scores_dfs |-> SinglePredict(y_scores_dfs[k], self.optimal_threshold)]

(***************************************************************************)
(* methods.py: DoubleThresholdMethod                                       *)
(***************************************************************************)
\* DoubleThresholdMethod.__init__
DoubleThresholdMethod_init ==
    [scores_calculated |-> FALSE,
     threshold_optimization_method |-> "DoubleThreshold",
     all_cutoffs |-> {},
     lower |-> <<>>, negative_thresholds |-> <<>>,
     upper |-> <<>>, positive_thresholds |-> <<>>,
     optimal_negative_threshold |-> <<>>,
     optimal_positive_threshold |-> <<>>,
     optimal_threshold |-> <<>>]

\* filtered_y[filtered_y_scores >= 0], filtered_y_scores[filtered_y_scores >= 0]
RECURSIVE PositivePairs(_)
PositivePairs(pairs) ==
    IF pairs = <<>> THEN <<>>
    ELSE (IF RLe(RZero, Head(pairs)[2]) THEN <<Head(pairs)>> ELSE <<>>)
         \o PositivePairs(Tail(pairs))

\* filtered_y[filtered_y_scores < 0], np.abs(filtered_y_scores[filtered_y_scores < 0])
RECURSIVE NegativePairs(_)
NegativePairs(pairs) ==
    IF pairs = <<>> THEN <<>>
    ELSE (IF RLt(Head(pairs)[2], RZero)
          THEN << <<Head(pairs)[1], RAbs(Head(pairs)[2])>> >> ELSE <<>>)
         \o NegativePairs(Tail(pairs))

HalfPairs(pairs, which_threshold) ==
    IF which_threshold = "positive" THEN PositivePairs(pairs) ELSE NegativePairs(pairs)

RInts(s) == Array([k \in DOMAIN s |-> RInt(s[k])])

\* fns_ = tps_[-1] - tps_
clf_with_fns(c) ==
    [fps |-> c.fps, tps |-> c.tps, thresholds |-> c.thresholds,
     fns |-> Array([k \in DOMAIN c.tps |-> c.tps[Len(c.tps)] - c.tps[k]])]

\* np.interp(interpolation_range_, thresholds_[::-1], curve[::-1])
Double_interp(interpolation_range_, thresholds, curve) ==
    Array([g \in DOMAIN interpolation_range_ |->
        np_interp(interpolation_range_[g], Reverse(thresholds), Reverse(RInts(curve)))])

\* _calculate_interpolated_partial_confmat:
\* (1) the filtered arrays of every bucket on the requested side, (2) their
\* curves (_binary_clf_curve raises on a bucket without a sample there),
\* (3) the common grid, (4) the counts interpolated on the grid
Double_interpolate_on(clf, interpolation_range_) ==
    [raised |-> FALSE,
     fps |-> Array([c \in DOMAIN clf |->
                 Double_interp(interpolation_range_, clf[c].thresholds, clf[c].fps)]),
     tps |-> Array([c \in DOMAIN clf |->
                 Double_interp(interpolation_range_, clf[c].thresholds, clf[c].tps)]),
     fns |-> Array([c \in DOMAIN clf |->
                 Double_interp(interpolation_range_, clf[c].thresholds, clf[c].fns)]),
     thresholds |-> interpolation_range_]

Double_interpolate(clf, interp_len) ==
    Double_interpolate_on(clf,
        np_linspace(GlobalMaxThreshold(clf), GlobalMinThreshold(clf), interp_len))

Double_curves(arr, interp_len) ==
    IF \E c \in DOMAIN arr : arr[c] = <<>>
    THEN [raised |-> TRUE]
    ELSE Double_interpolate(
             Array([c \in DOMAIN arr |-> clf_with_fns(binary_clf_curve(arr[c]))]),
             interp_len)

Double_calculate_interpolated_partial_confmat(y_dfs, y_scores_dfs, lf, which_threshold, interp_len) ==
    IF ~MasksFit(y_dfs, y_scores_dfs, lf)
    THEN [raised |-> TRUE]
    ELSE Double_curves(
             Array([c \in DOMAIN lf[1] |->
                 HalfPairs(filter_label_and_scores_to_array(y_dfs, y_scores_dfs, lf, c),
                           which_threshold)]),
             interp_len)

\* the grid with its axes exchanged: entry [i][j] pairs lower[i] with upper[j]
MeshSumTransposed(lower, upper) ==
    Array([i \in DOMAIN lower |->
        Array([j \in DOMAIN upper |-> RAdd(lower[i], upper[j])])])

\* np.meshgrid(lower, upper): entry [i][j] pairs upper[i] with lower[j]
MeshSum(lower, upper) ==
    Array([i \in DOMAIN upper |->
        Array([j \in DOMAIN lower |-> RAdd(lower[j], upper[i])])])

\* _calculate_grid_scores
Double_calculate_grid_scores(fp_grid, tp_grid, fn_grid, used_cutoffs) ==
    Array([c \in Range(used_cutoffs) |->
        Array([i \in DOMAIN fp_grid[c] |->
            Array([j \in DOMAIN fp_grid[c][i] |->
                f_beta_from_confmat(fp_grid[c][i][j], tp_grid[c][i][j], fn_grid[c][i][j])])])])

\* np.unravel_index(flat_index, shape) for a row-major flat index
unravel_index(flat_index, cols) ==
    <<((flat_index - 1) \div cols) + 1, ((flat_index - 1) % cols) + 1>>

\* sum_scores over the used buckets, flattened row-major
FlatSumScores(scores_over_cutoffs, used_cutoffs, rows, cols) ==
    Array([f \in 1..(rows * cols) |->
        RSum([k \in DOMAIN used_cutoffs |->
            scores_over_cutoffs[used_cutoffs[k]]
                [unravel_index(f, cols)[1]][unravel_index(f, cols)[2]]])])

\* _find_max_score_indices_for_cutoffs: np.argmax of the flattened sum over
\* the used buckets, unravelled to (row, column)
Double_find_max_score_indices_for_cutoffs(scores_over_cutoffs, used_cutoffs) ==
    unravel_index(
        np_argmax(FlatSumScores(scores_over_cutoffs, used_cutoffs,
                                Len(scores_over_cutoffs[used_cutoffs[1]]),
                                Len(scores_over_cutoffs[used_cutoffs[1]][1]))),
        Len(scores_over_cutoffs[used_cutoffs[1]][1]))

\* the grid of the negative side holds absolute values: the optimal negative
\* threshold is minus the chosen grid value
NegativeThresholdUnnegated(grid_value) == grid_value

NegativeThreshold(grid_value) == RNeg(grid_value)

\* calculate_and_set_thresholds, from the chosen (row, column)
Double_set_thresholds(self, max_score_indices) ==
    Returned([self EXCEPT
        !.optimal_negative_threshold =
            NegativeThreshold(self.negative_thresholds[max_score_indices[2]]),
        !.optimal_positive_threshold = self.positive_thresholds[max_score_indices[1]],
        !.optimal_threshold =
            <<NegativeThreshold(self.negative_thresholds[max_score_indices[2]]),
              self.positive_thresholds[max_score_indices[1]]>>])

\* calculate_and_set_thresholds; raises when there are no interpolated
\* counts yet (AttributeError) or none for a used bucket (KeyError)
Double_calculate_and_set_thresholds(self, used_cutoffs) ==
    IF \/ self.lower = <<>>
       \/ self.upper = <<>>
       \/ ~(Range(used_cutoffs) \subseteq DOMAIN self.lower.fps)
    THEN Raised(self)
    ELSE Double_set_thresholds(self,
             Double_find_max_score_indices_for_cutoffs(
                 Double_calculate_grid_scores(
                     Array([c \in Range(used_cutoffs) |->
                         MeshSum(self.lower.fps[c], self.upper.fps[c])]),
                     Array([c \in Range(used_cutoffs) |->
                         MeshSum(self.lower.tps[c], self.upper.tps[c])]),
                     Array([c \in Range(used_cutoffs) |->
                         MeshSum(self.lower.fns[c], self.upper.fns[c])]),
                     used_cutoffs),
                 used_cutoffs))

\* optimize_thresholds, after the negative side has been stored
Double_store_upper(self, up, used_cutoffs) ==
    IF up.raised THEN Raised(self)
    ELSE Double_calculate_and_set_thresholds(
             [self EXCEPT !.upper = [fps |-> up.fps, tps |-> up.tps, fns |-> up.fns],
                          !.positive_thresholds = up.thresholds,
                          !.scores_calculated = TRUE],
             used_cutoffs)

\* optimize_thresholds, computing the curves: the negative side, then the
\* positive side
Double_store_lower(self, lo, y_dfs, y_scores_dfs, lf, used_cutoffs, interp_len) ==
    IF lo.raised THEN Raised(self)
    ELSE Double_store_upper(
             [self EXCEPT !.lower = [fps |-> lo.fps, tps |-> lo.tps, fns |-> lo.fns],
                          !.negative_thresholds = lo.thresholds],
             Double_calculate_interpolated_partial_confmat(
                 y_dfs, y_scores_dfs, lf, "positive", interp_len),
             used_cutoffs)

Double_optimize_with_cutoffs(self, y_dfs, y_scores_dfs, lf, used_cutoffs, recalculate_scores, interp_len) ==
    IF ~(Range(used_cutoffs) \subseteq self.all_cutoffs)
    THEN Raised(self)
    ELSE IF ~self.scores_calculated \/ recalculate_scores
         THEN Double_store_lower(self,
                  Double_calculate_interpolated_partial_confmat(
                      y_dfs, y_scores_dfs, lf, "negative", interp_len),
                  y_dfs, y_scores_dfs, lf, used_cutoffs, interp_len)
         ELSE Double_calculate_and_set_thresholds(self, used_cutoffs)

\* optimize_thresholds
Double_optimize_thresholds(self, y_dfs, y_scores_dfs, lf, used_cutoffs, recalculate_scores, interp_len) ==
    IF lf = <<>>
    THEN Returned([self EXCEPT !.optimal_threshold = <<RNegInf, RInf>>])
    ELSE Double_optimize_with_cutoffs(
             [self EXCEPT !.all_cutoffs = DOMAIN lf[1]],
             y_dfs, y_scores_dfs, lf, used_cutoffs, recalculate_scores, interp_len)

\* pred[(score < optimal_negative_threshold) | (score >= optimal_positive_threshold)] = 1
DoublePredictUpperOnly(score, negative, positive) ==
    [i \in DOMAIN score |-> IF RLe(positive, score[i]) THEN 1 ELSE 0]

DoublePredict(score, negative, positive) ==
    [i \in DOMAIN score |->
        IF RLt(score[i], negative) \/ RLe(positive, score[i]) THEN 1 ELSE 0]

\* predict_from_scores_dfs; raises (AttributeError) while no optimisation has
\* assigned optimal_negative_threshold and optimal_positive_threshold
Double_predict_from_scores_dfs(self, y_scores_dfs) ==
    [k \in DOMAIN y_scores_dfs |->
        DoublePredict(y_scores_dfs[k], self.optimal_negative_threshold,
                      self.optimal_positive_threshold)]

(***************************************************************************)
(* The threshold optimisers as a state machine: one batch, one optimiser   *)
(* object (an engine mixes in exactly one of the two classes), and the     *)
(* calls optimize_thresholds and predict_from_scores_dfs on it.            *)
(***************************************************************************)
\* labels without the uncertain code, and a few scores of either sign
ThrLabels == {0, 1}

ThrScoreValues == {RInt(-3), RInt(-1), RInt(0), RInt(3)}

ThrCutoffConfigs == {<<CutInf(0)>>, <<Cut(0, 1), CutInf(1)>>}

\* label_filters_for_all_cutoffs as preprocessing builds it, one entry per station
BatchLabelFilters(y_dfs, all_cutoffs) ==
    [k \in DOMAIN y_dfs |->
        get_label_filters_for_all_cutoffs(
            y_dfs[k], get_event_lengths(y_dfs[k]), all_cutoffs, FALSE,
            [i \in DOMAIN y_dfs[k] |-> 0])]

\* no station at all, or one station of 1..MaxSamples samples
Batches ==
    {[y_dfs |-> <<>>, y_scores_dfs |-> <<>>, lf |-> <<>>, all_cutoffs |-> cfg] :
        cfg \in ThrCutoffConfigs}
    \cup
    UNION {
        {[y_dfs |-> <<y>>, y_scores_dfs |-> <<sc>>,
          lf |-> BatchLabelFilters(<<y>>, cfg), all_cutoffs |-> cfg] :
            y \in [1..n -> ThrLabels], sc \in [1..n -> ThrScoreValues],
            cfg \in ThrCutoffConfigs}
        : n \in 1..MaxSamples}

\* used_cutoffs: one bucket (of this or of another preprocessing) or all buckets
UsedCutoffsChoices(all_cutoffs) ==
    {<<c>> : c \in UNION {Range(cfg) : cfg \in ThrCutoffConfigs}} \cup {all_cutoffs}

InitThr ==
    /\ PreIdle
    /\ ConcIdle
    /\ FunIdle
    /\ SpcIdle
    /\ EnsIdle
    /\ thr_batch \in Batches
    /\ \/ single = SingleThresholdMethod_init /\ double = <<>>
       \/ single = <<>> /\ double = DoubleThresholdMethod_init
    /\ thr_call = [op |-> "__init__", raised |-> FALSE, used_cutoffs |-> <<>>]
    /\ thr_pred = <<>>

OptimizeSingle ==
    /\ single # <<>>
    /\ \E used_cutoffs \in UsedCutoffsChoices(thr_batch.all_cutoffs),
          recalculate_scores \in BOOLEAN :
          \E r \in {Single_optimize_thresholds(
                       single, thr_batch.y_dfs, thr_batch.y_scores_dfs, thr_batch.lf,
                       used_cutoffs, recalculate_scores, InterpLen)} :
              /\ single' = r.self
              /\ thr_call' = [op |-> "optimize_thresholds", raised |-> r.raised,
                               used_cutoffs |-> used_cutoffs]
    /\ thr_pred' = <<>>
    /\ UNCHANGED <<thr_batch, double, preVars, spcVars, ensVars, concVars, funVars>>

OptimizeDouble ==
    /\ double # <<>>
    /\ \E used_cutoffs \in UsedCutoffsChoices(thr_batch.all_cutoffs),
          recalculate_scores \in BOOLEAN :
          \E r \in {Double_optimize_thresholds(
                       double, thr_batch.y_dfs, thr_batch.y_scores_dfs, thr_batch.lf,
                       used_cutoffs, recalculate_scores, InterpLen)} :
              /\ double' = r.self
              /\ thr_call' = [op |-> "optimize_thresholds", raised |-> r.raised,
                               used_cutoffs |-> used_cutoffs]
    /\ thr_pred' = <<>>
    /\ UNCHANGED <<thr_batch, single, preVars, spcVars, ensVars, concVars, funVars>>

\* comparing a station's scores without an optimal threshold attribute raises
\* AttributeError
PredictSingle ==
    /\ single # <<>>
    /\ IF single.optimal_threshold = <<>> /\ thr_batch.y_scores_dfs # <<>>
       THEN /\ thr_pred' = <<>>
            /\ thr_call' = [op |-> "predict_from_scores_dfs", raised |-> TRUE,
                             used_cutoffs |-> <<>>]
       ELSE /\ thr_pred' = Single_predict_from_scores_dfs(single, thr_batch.y_scores_dfs)
            /\ thr_call' = [op |-> "predict_from_scores_dfs", raised |-> FALSE,
                             used_cutoffs |-> <<>>]
    /\ UNCHANGED <<thr_batch, single, double, preVars, spcVars, ensVars, concVars, funVars>>

PredictDouble ==
    /\ double # <<>>
    /\ IF double.optimal_negative_threshold = <<>> /\ thr_batch.y_scores_dfs # <<>>
       THEN /\ thr_pred' = <<>>
            /\ thr_call' = [op |-> "predict_from_scores_dfs", raised |-> TRUE,
                             used_cutoffs |-> <<>>]
       ELSE /\ thr_pred' = Double_predict_from_scores_dfs(double, thr_batch.y_scores_dfs)
            /\ thr_call' = [op |-> "predict_from_scores_dfs", raised |-> FALSE,
                             used_cutoffs |-> <<>>]
    /\ UNCHANGED <<thr_batch, single, double, preVars, spcVars, ensVars, concVars, funVars>>

NextThr == OptimizeSingle \/ OptimizeDouble \/ PredictSingle \/ PredictDouble

SpecThr == InitThr /\ [][NextThr]_vars

(***************************************************************************)
(* Claims about the threshold optimisers (SpecThr).                        *)
(***************************************************************************)
Optimized == thr_call.op = "optimize_thresholds" /\ ~thr_call.raised

Predicted == thr_call.op = "predict_from_scores_dfs" /\ ~thr_call.raised

\* every score that was passed, over all stations
PassedScores ==
    UNION {Range(thr_batch.y_scores_dfs[k]) : k \in DOMAIN thr_batch.y_scores_dfs}

\* C2: predict_from_scores_dfs labels sample i as 1 exactly when
\* |score[i]| >= tau (single threshold) or score[i] < tau_minus or
\* score[i] >= tau_plus (double threshold), else 0; the label of a sample is
\* decided by its own score alone.
C2_PredictorRule ==
    Predicted =>
        /\ DOMAIN thr_pred = DOMAIN thr_batch.y_scores_dfs
        /\ \A k \in DOMAIN thr_pred :
            /\ DOMAIN thr_pred[k] = DOMAIN thr_batch.y_scores_dfs[k]
            /\ \A i \in DOMAIN thr_pred[k] :
                LET sc == thr_batch.y_scores_dfs[k][i]
                    flagged ==
                        IF single # <<>>
                        THEN ~RLt(RAbs(sc), single.optimal_threshold)
                        ELSE \/ RLt(sc, double.optimal_negative_threshold)
                             \/ ~RLt(sc, double.optimal_positive_threshold)
                IN  thr_pred[k][i] = (IF flagged THEN 1 ELSE 0)

\* the single rule has acted: a sample on the threshold and one below it
C2_WitnessSingle ==
    /\ Predicted /\ single # <<>> /\ thr_batch.y_scores_dfs # <<>>
    /\ \E i \in DOMAIN thr_pred[1] :
          /\ RAbs(thr_batch.y_scores_dfs[1][i]) = single.optimal_threshold
          /\ thr_pred[1][i] = 1
    /\ \E i \in DOMAIN thr_pred[1] : thr_pred[1][i] = 0

\* the double rule has acted on both sides: a sample below tau_minus and a
\* sample on tau_plus
C2_Witness ==
    /\ Predicted /\ double # <<>> /\ thr_batch.y_scores_dfs # <<>>
    /\ \E i \in DOMAIN thr_pred[1] :
          /\ RLt(thr_batch.y_scores_dfs[1][i], double.optimal_negative_threshold)
          /\ thr_pred[1][i] = 1
    /\ \E i \in DOMAIN thr_pred[1] :
          /\ thr_batch.y_scores_dfs[1][i] = double.optimal_positive_threshold
          /\ thr_pred[1][i] = 1

\* ... and has left a sample between the two thresholds unflagged
C2_WitnessDoubleUnflagged ==
    /\ Predicted /\ double # <<>> /\ thr_batch.y_scores_dfs # <<>>
    /\ \E i \in DOMAIN thr_pred[1] : thr_pred[1][i] = 0

\* C8: after SingleThresholdMethod.optimize_thresholds on a non-empty batch
\* the optimal threshold lies between the smallest and the largest |score|
\* that was passed.
C8_Original ==
    (Optimized /\ single # <<>> /\ thr_batch.y_dfs # <<>>) =>
        /\ \E sc \in PassedScores : RLe(RAbs(sc), single.optimal_threshold)
        /\ \E sc \in PassedScores : RLe(single.optimal_threshold, RAbs(sc))

\* C9: after DoubleThresholdMethod.optimize_thresholds, on an empty batch or
\* not, the stored pair satisfies tau_minus <= 0 <= tau_plus.
C9_DoubleThresholdSigns ==
    (double # <<>> /\ double.optimal_threshold # <<>>) =>
        /\ RLe(double.optimal_threshold[1], RZero)
        /\ RLe(RZero, double.optimal_threshold[2])

C9_Witness ==
    /\ Optimized /\ double # <<>> /\ thr_batch.y_dfs # <<>>
    /\ RLt(double.optimal_threshold[1], RZero)
    /\ RLt(RZero, double.optimal_threshold[2])

C9_WitnessEmptyBatch ==
    /\ Optimized /\ double # <<>> /\ thr_batch.y_dfs = <<>>
    /\ double.optimal_threshold = <<RNegInf, RInf>>

\* the sum of the values of a function over its domain
RECURSIVE RSumOver(_)
RSumOver(f) ==
    IF DOMAIN f = {} THEN RZero
    ELSE LET c == CHOOSE c \in DOMAIN f : TRUE
         IN  RAdd(f[c], RSumOver([d \in DOMAIN f \ {c} |-> f[d]]))

\* the buckets the last calculate_and_set_thresholds was given
UsedBuckets == DOMAIN single.scores

\* the thresholds of the precision-recall curves of all buckets
BucketThresholds ==
    UNION {Range(precision_recall_curve(SymmetricalPairs(
               filter_label_and_scores_to_array(thr_batch.y_dfs, thr_batch.y_scores_dfs,
                                                thr_batch.lf, c))).thresholds) :
           c \in DOMAIN thr_batch.lf[1]}

\* the grid has interp_len points, from the largest threshold of all buckets
\* down to the smallest
CommonGrid ==
    /\ Len(single.thresholds) = InterpLen
    /\ single.thresholds[1] = RMaxSet(BucketThresholds)
    /\ single.thresholds[InterpLen] = RMinSet(BucketThresholds)
    /\ \A g, h \in DOMAIN single.thresholds :
          g < h => RLe(single.thresholds[h], single.thresholds[g])

\* the mean over the used buckets of the F-beta at grid point g
MeanFBeta(g) ==
    RDiv(RSumOver([c \in UsedBuckets |-> f_beta(single.precision[c][g], single.recall[c][g])]),
         RInt(Cardinality(UsedBuckets)))

\* the threshold is a grid point at which the mean F-beta is maximal
MaximalOnGrid ==
    \E idx \in DOMAIN single.thresholds :
        /\ single.optimal_threshold = single.thresholds[idx]
        /\ \A g \in DOMAIN single.thresholds : RLe(MeanFBeta(g), MeanFBeta(idx))

\* C19: the threshold set by calculate_and_set_thresholds(used_cutoffs) is
\* the point of the common grid (interp_len points, descending from the
\* global maximum to the global minimum threshold) at which the mean F-beta
\* over the used_cutoffs buckets is maximal over all grid points.
C19_Original ==
    (Optimized /\ single # <<>> /\ thr_batch.y_dfs # <<>>) => (CommonGrid /\ MaximalOnGrid)

\* the F-beta of bucket c in the cell of positive grid index i and negative
\* grid index j
DoubleCell(c, i, j) ==
    f_beta_from_confmat(RAdd(double.lower.fps[c][j], double.upper.fps[c][i]),
                        RAdd(double.lower.tps[c][j], double.upper.tps[c][i]),
                        RAdd(double.lower.fns[c][j], double.upper.fns[c][i]))

\* the cell summed over the used buckets
SumFBeta(i, j) ==
    RSumOver([c \in Range(thr_call.used_cutoffs) |-> DoubleCell(c, i, j)])

\* the stored pair is that of cell (i, j)
ChosenCell(i, j) ==
    /\ double.optimal_positive_threshold = double.positive_thresholds[i]
    /\ double.optimal_negative_threshold = RNeg(double.negative_thresholds[j])

\* C20: the pair chosen by DoubleThresholdMethod corresponds to an arg-max
\* cell of the F-beta grid summed over the used buckets, where the cell of
\* negative grid index j and positive grid index i is computed from
\* fp_neg[j] + fp_pos[i], tp_neg[j] + tp_pos[i] and fn_neg[j] + fn_pos[i];
\* tau_plus = positive_thresholds[i] and tau_minus = -negative_thresholds[j].
C20_DoubleSelection ==
    (Optimized /\ double # <<>> /\ thr_batch.y_dfs # <<>>) =>
        \E i \in DOMAIN double.positive_thresholds, j \in DOMAIN double.negative_thresholds :
            /\ ChosenCell(i, j)
            /\ \A i2 \in DOMAIN double.positive_thresholds,
                  j2 \in DOMAIN double.negative_thresholds :
                  RLe(SumFBeta(i2, j2), SumFBeta(i, j))

\* two buckets are summed, the negative threshold is below 0, and the cell
\* with the two indices of the chosen cell exchanged is no arg-max cell
C20_Witness ==
    /\ Optimized /\ double # <<>> /\ thr_batch.y_dfs # <<>>
    /\ Len(thr_call.used_cutoffs) = 2
    /\ RLt(double.optimal_negative_threshold, RZero)
    /\ \A i \in DOMAIN double.positive_thresholds, j \in DOMAIN double.negative_thresholds :
          ChosenCell(i, j) =>
              \E i2 \in DOMAIN double.positive_thresholds,
                 j2 \in DOMAIN double.negative_thresholds :
                  RLt(SumFBeta(j, i), SumFBeta(i2, j2))

\* the same with a positive threshold above 0
C20_WitnessPositive ==
    /\ Optimized /\ double # <<>> /\ thr_batch.y_dfs # <<>>
    /\ Len(thr_call.used_cutoffs) = 2
    /\ RLt(RZero, double.optimal_positive_threshold)
    /\ \A i \in DOMAIN double.positive_thresholds, j \in DOMAIN double.negative_thresholds :
          ChosenCell(i, j) =>
              \E i2 \in DOMAIN double.positive_thresholds,
                 j2 \in DOMAIN double.negative_thresholds :
                  RLt(SumFBeta(j, i), SumFBeta(i2, j2))

\* the optimizer counts a sample as predicted positive at the stored pair:
\* a negative score with |score| >= |tau_minus|, a non-negative score with
\* score >= tau_plus
CountedPositive(score) ==
    IF RLt(score, RZero)
    THEN RLe(RAbs(double.optimal_negative_threshold), RAbs(score))
    ELSE RLe(double.optimal_positive_threshold, score)

\* C26: for the chosen (tau_minus, tau_plus) the samples the predictor
\* labels 1 are the samples the optimizer counted as predicted positive at
\* those thresholds, including the samples whose score equals tau_minus.
C26_Original ==
    (/\ Predicted /\ double # <<>> /\ thr_batch.y_dfs # <<>>
     /\ double.optimal_negative_threshold # <<>>) =>
        \A i \in DOMAIN thr_pred[1] :
            thr_pred[1][i] = 1 <=> CountedPositive(thr_batch.y_scores_dfs[1][i])

\* The F-beta of the predictions of station 1 against its labels.
PredictionCount(label, pred) ==
    Cardinality({i \in DOMAIN thr_pred[1] :
        thr_batch.y_dfs[1][i] = label /\ thr_pred[1][i] = pred})

PredictionFBeta ==
    f_beta_from_confmat(RInt(PredictionCount(0, 1)), RInt(PredictionCount(1, 1)),
                        RInt(PredictionCount(1, 0)))

SinglePredictedAfterOptimize ==
    /\ Predicted /\ single # <<>> /\ single.optimal_threshold # <<>>
    /\ thr_batch.y_dfs # <<>>

AllZeroScores ==
    /\ \A i \in DOMAIN thr_batch.y_dfs[1] : thr_batch.y_scores_dfs[1][i] = RZero
    /\ \E i \in DOMAIN thr_batch.y_dfs[1] : thr_batch.y_dfs[1][i] = 1

PerfectlySeparable ==
    /\ \E i \in DOMAIN thr_batch.y_dfs[1] : thr_batch.y_dfs[1][i] = 1
    /\ \A i, j \in DOMAIN thr_batch.y_dfs[1] :
          (thr_batch.y_dfs[1][i] = 1 /\ thr_batch.y_dfs[1][j] = 0) =>
              RLt(RAbs(thr_batch.y_scores_dfs[1][j]), RAbs(thr_batch.y_scores_dfs[1][i]))

C10_AllZeroPart ==
    (SinglePredictedAfterOptimize /\ AllZeroScores) => PredictionFBeta = RZero

C10_SeparablePart ==
    (SinglePredictedAfterOptimize /\ PerfectlySeparable) => PredictionFBeta = ROne

\* C10: at the threshold the single-threshold optimiser chose, the F-beta of
\* the predictions is 0 on all-zero scores with at least one label 1, and 1
\* on perfectly separable scores.
C10_Original == C10_AllZeroPart /\ C10_SeparablePart

(***************************************************************************)
(* methods.py: StatisticalProcessControl scores                            *)
(***************************************************************************)
\* np.convolve(arr, kernel, mode='same'): the full convolution has
\* N + M - 1 entries; 'same' keeps the max(N, M) central ones, starting at
\* offset (min(N, M) - 1) // 2
np_convolve_same(arr, kernel) ==
    Array([t \in 1..Max2(Len(arr), Len(kernel)) |->
        RSum([j \in DOMAIN arr |->
            IF (t + ((Min2(Len(arr), Len(kernel)) - 1) \div 2) - j + 1) \in DOMAIN kernel
            THEN RMul(arr[j],
                      kernel[t + ((Min2(Len(arr), Len(kernel)) - 1) \div 2) - j + 1])
            ELSE RZero])])

\* StatisticalProcessControl.moving_average
moving_average(arr, window_size) ==
    IF window_size = 1 THEN arr
    ELSE np_convolve_same(arr, [i \in 1..window_size |-> Rat(1, window_size)])

RECURSIVE InsertSorted(_, _)
InsertSorted(v, sorted) ==
    IF sorted = <<>> THEN <<v>>
    ELSE IF RLe(v, Head(sorted)) THEN <<v>> \o sorted
    ELSE <<Head(sorted)>> \o InsertSorted(v, Tail(sorted))

RECURSIVE SortAsc(_)
SortAsc(arr) ==
    IF arr = <<>> THEN <<>> ELSE InsertSorted(Head(arr), SortAsc(Tail(arr)))

\* np.nanpercentile(., q), linear interpolation between the two neighbours
\* of position q / 100 * (n - 1) in the sorted array
np_percentile_sorted(sorted, q) ==
    IF (q * (Len(sorted) - 1)) % 100 = 0
    THEN sorted[((q * (Len(sorted) - 1)) \div 100) + 1]
    ELSE RAdd(sorted[((q * (Len(sorted) - 1)) \div 100) + 1],
              RMul(Rat((q * (Len(sorted) - 1)) % 100, 100),
                   RSub(sorted[((q * (Len(sorted) - 1)) \div 100) + 2],
                        sorted[((q * (Len(sorted) - 1)) \div 100) + 1])))

\* quantiles=(10, 90)
quantile_low == 10

quantile_high == 90

\* RobustScaler: (x - center_) / scale_, a zero scale_ replaced by 1
robust_scale(x, center_, scale_) ==
    Array([i \in DOMAIN x |->
        RDiv(RSub(x[i], center_), IF scale_ = RZero THEN ROne ELSE scale_)])

RobustScaler_fit_transform_sorted(x, sorted, quantiles) ==
    robust_scale(x, np_percentile_sorted(sorted, 50),
                 RSub(np_percentile_sorted(sorted, quantiles[2]),
                      np_percentile_sorted(sorted, quantiles[1])))

\* RobustScaler(quantile_range=quantiles).fit_transform: center_ the median,
\* scale_ the interpercentile range
RobustScaler_fit_transform(x, quantiles) ==
    RobustScaler_fit_transform_sorted(x, SortAsc(x), quantiles)

\* the scores of every station: scaled moving average of the column "diff"
SPC_calculate_scores(self, X_dfs) ==
    Array([k \in DOMAIN X_dfs |->
        RobustScaler_fit_transform(moving_average(X_dfs[k], self.move_avg),
                                   self.quantiles)])

(***************************************************************************)
(* methods.py: SingleThresholdStatisticalProcessControl, the engine.       *)
(* The object is the record of its attributes, the SingleThresholdMethod   *)
(* attributes under thr.  A pickle is [exists, content].                   *)
(***************************************************************************)
NoFile == [exists |-> FALSE, content |-> <<>>]

File(content) == [exists |-> TRUE, content |-> content]

\* SaveableModel.save_model(overwrite=True): pickle.dump(self.__dict__)
save_model_nothing(self, fs) == fs

save_model(self, fs) == [fs EXCEPT !.model = File(self)]

\* SaveableModel.load_model: self.__dict__.update(pickle), used_cutoffs kept
load_model_all(self, fs) == fs.model.content

load_model(self, fs) == [fs.model.content EXCEPT !.used_cutoffs = self.used_cutoffs]

\* SingleThresholdStatisticalProcessControl.__init__ on a store: the
\* attributes of StatisticalProcessControl and SingleThresholdMethod, then
\* SaveableModel.__init__, which loads the model pickle when it exists
SPC_fresh(move_avg, used_cutoffs) ==
    [score_calculation_method_name |-> "StatisticalProcessControl",
     method_name |-> "SingleThresholdSPC",
     quantiles |-> <<quantile_low, quantile_high>>,
     used_cutoffs |-> used_cutoffs,
     move_avg |-> move_avg,
     thr |-> SingleThresholdMethod_init]

SPC_init(move_avg, used_cutoffs, fs) ==
    IF fs.model.exists
    THEN load_model(SPC_fresh(move_avg, used_cutoffs), fs)
    ELSE SPC_fresh(move_avg, used_cutoffs)

\* what fit_transform_predict leaves behind: the object, the store, and
\* either an exception or the returned (y_scores_dfs, y_prediction_dfs)
FtpRaised(self, fs) ==
    [self |-> self, files |-> fs, raised |-> TRUE, reloaded |-> FALSE,
     y_scores_dfs |-> <<>>, y_prediction_dfs |-> <<>>]

FtpReturned(self, fs, y_scores_dfs, y_prediction_dfs) ==
    [self |-> self, files |-> fs, raised |-> FALSE, reloaded |-> FALSE,
     y_scores_dfs |-> y_scores_dfs, y_prediction_dfs |-> y_prediction_dfs]

\* if fit: self.optimize_thresholds(...) else: self.calculate_and_set_thresholds(...)
SPC_set_thresholds(self, y_dfs, y_scores_dfs, lf, fit) ==
    IF fit
    THEN Single_optimize_thresholds(self.thr, y_dfs, y_scores_dfs, lf,
                                    self.used_cutoffs, FALSE, InterpLen)
    ELSE Single_calculate_and_set_thresholds(self.thr, self.used_cutoffs)

\* predictions and model reloaded: the pickled predictions are returned
SPC_ftp_reloaded(self, fs, t, y_scores_dfs) ==
    IF t.raised
    THEN FtpRaised([self EXCEPT !.thr = t.self], fs)
    ELSE [FtpReturned([self EXCEPT !.thr = t.self], fs, y_scores_dfs,
                      fs.predictions.content) EXCEPT !.reloaded = TRUE]

\* predictions computed, then the predictions and (if fit) the model written
SPC_ftp_write(self, fs, y_scores_dfs, y_prediction_dfs, fit, dry_run, save_predictions) ==
    FtpReturned(self,
        IF dry_run THEN fs
        ELSE IF fit
             THEN save_model(self,
                      IF save_predictions
                      THEN [fs EXCEPT !.predictions = File(y_prediction_dfs)] ELSE fs)
             ELSE IF save_predictions
                  THEN [fs EXCEPT !.predictions = File(y_prediction_dfs)] ELSE fs,
        y_scores_dfs, y_prediction_dfs)

SPC_ftp_computed(self, fs, t, y_scores_dfs, fit, dry_run, save_predictions) ==
    IF t.raised
    THEN FtpRaised([self EXCEPT !.thr = t.self], fs)
    ELSE SPC_ftp_write([self EXCEPT !.thr = t.self], fs, y_scores_dfs,
                       Single_predict_from_scores_dfs(t.self, y_scores_dfs),
                       fit, dry_run, save_predictions)

\* fit_transform_predict from "Calculate predictions from scores" on
SPC_ftp_predictions(self, fs, y_dfs, y_scores_dfs, lf, overwrite, fit, dry_run, save_predictions) ==
    IF fs.predictions.exists /\ fs.model.exists /\ ~overwrite
    THEN SPC_ftp_reloaded(load_model(self, fs), fs,
             SPC_set_thresholds(load_model(self, fs), y_dfs, y_scores_dfs, lf, fit),
             y_scores_dfs)
    ELSE SPC_ftp_computed(self, fs,
             SPC_set_thresholds(self, y_dfs, y_scores_dfs, lf, fit),
             y_scores_dfs, fit, dry_run, save_predictions)

\* fit_transform_predict with freshly calculated scores
SPC_ftp_calculated(self, fs, y_scores_dfs, y_dfs, lf, overwrite, fit, dry_run, save_predictions) ==
    SPC_ftp_predictions(self,
        IF dry_run THEN fs ELSE [fs EXCEPT !.scores = File(y_scores_dfs)],
        y_dfs, y_scores_dfs, lf, overwrite, fit, dry_run, save_predictions)

\* fit_transform_predict: the scores are reloaded when scores.pickle exists
\* and overwrite is not set, else calculated and (unless dry_run) written
SPC_fit_transform_predict(self, fs, X_dfs, y_dfs, lf, overwrite, fit, dry_run, save_predictions) ==
    IF fs.scores.exists /\ ~overwrite
    THEN SPC_ftp_predictions(self, fs, y_dfs, fs.scores.content, lf,
                             overwrite, fit, dry_run, save_predictions)
    ELSE SPC_ftp_calculated(self, fs, SPC_calculate_scores(self, X_dfs), y_dfs, lf,
                            overwrite, fit, dry_run, save_predictions)

(***************************************************************************)
(* The engine as a state machine: one engine (one hyperparameter hash and  *)
(* one preprocessing hash), constructed on an empty store and then called  *)
(* on the splits.  A split is one immutable batch of one station with its  *)
(* own base_scores_path and base_predictions_path; the model pickle is     *)
(* shared by the splits.                                                   *)
(***************************************************************************)
Splits == {"Train", "Test"}

EngineDiffValues == {RInt(0), RInt(1)}

EngineCutoffs == <<CutInf(0)>>

\* a preprocessing with two buckets
StoreCutoffs == <<Cut(0, 1), CutInf(1)>>

\* preprocessed batches: X_dfs (column "diff"), y_dfs and the label filters
EngineBatches ==
    UNION {
        {[X_dfs |-> <<x>>, y_dfs |-> <<y>>, lf |-> BatchLabelFilters(<<y>>, EngineCutoffs)] :
            x \in [1..n -> EngineDiffValues], y \in [1..n -> ThrLabels]}
        : n \in 1..MaxStationLen}

\* every used_cutoffs an engine is constructed with: the predictions pickle
\* is named str(self.used_cutoffs) + ".pickle"
EngineUsedCutoffs ==
    {EngineCutoffs} \cup {<<c>> : c \in Range(StoreCutoffs)} \cup {StoreCutoffs}

EmptyStore ==
    [model |-> NoFile,
     scores |-> [sp \in Splits |-> NoFile],
     predictions |-> [key \in Splits \X EngineUsedCutoffs |-> NoFile]]

\* the three pickles a call of an engine with used_cutoffs on split sp
\* reads and writes
FilesAt(store, sp, used_cutoffs) ==
    [scores |-> store.scores[sp],
     predictions |-> store.predictions[<<sp, used_cutoffs>>],
     model |-> store.model]

StoreWith(store, sp, used_cutoffs, fs) ==
    [model |-> fs.model,
     scores |-> [store.scores EXCEPT ![sp] = fs.scores],
     predictions |-> [store.predictions EXCEPT ![<<sp, used_cutoffs>>] = fs.predictions]]

Constructed(used_cutoffs) ==
    [op |-> "__init__", sp |-> "", used_cutoffs |-> used_cutoffs, dry_run |-> FALSE,
     n_samples |-> <<>>, raised |-> FALSE, reloaded |-> FALSE,
     y_scores_dfs |-> <<>>, y_prediction_dfs |-> <<>>]

\* spc_fit: nothing to compare with
NoFit ==
    [stage |-> "none", sp |-> "", self |-> <<>>,
     y_scores_dfs |-> <<>>, y_prediction_dfs |-> <<>>]

\* an engine of one of the windows and used_cutoffs, constructed on the
\* empty store of a pipeline whose splits hold one of the batches each
EngineInit(splits, batches, windows, cutoffs) ==
    /\ PreIdle
    /\ ConcIdle
    /\ FunIdle
    /\ ThrIdle
    /\ EnsIdle
    /\ spc_data \in [splits -> batches]
    /\ files = EmptyStore
    /\ \E move_avg \in windows, used_cutoffs \in cutoffs :
          /\ spc = SPC_init(move_avg, used_cutoffs,
                            FilesAt(EmptyStore, "Train", used_cutoffs))
          /\ spc_call = Constructed(used_cutoffs)
    /\ spc_calls = 0
    /\ spc_fit = NoFit

Init == EngineInit(Splits, EngineBatches, 1..MaxWindow, {EngineCutoffs})

\* spc_fit after a call: a fit that returned and persisted is remembered;
\* a transform_predict of the reloaded engine on the fit's split closes the
\* round trip; every other call ends it
FitAfterCall(op, sp, dry_run, r) ==
    IF op = "fit_transform_predict"
    THEN IF ~r.raised /\ ~dry_run
         THEN [stage |-> "fit", sp |-> sp, self |-> r.self,
               y_scores_dfs |-> r.y_scores_dfs,
               y_prediction_dfs |-> r.y_prediction_dfs]
         ELSE NoFit
    ELSE IF spc_fit.stage = "reloaded" /\ spc_fit.sp = sp
         THEN [spc_fit EXCEPT !.stage = "rescored"]
         ELSE NoFit

\* the outcome of a call becomes the state
FtpOutcome(op, sp, dry_run, r) ==
    /\ spc' = r.self
    /\ files' = StoreWith(files, sp, spc.used_cutoffs, r.files)
    /\ spc_call' = [op |-> op, sp |-> sp, used_cutoffs |-> spc.used_cutoffs,
                    dry_run |-> dry_run,
                    n_samples |-> [k \in DOMAIN spc_data[sp].X_dfs |->
                                      Len(spc_data[sp].X_dfs[k])],
                    raised |-> r.raised, reloaded |-> r.reloaded,
                    y_scores_dfs |-> r.y_scores_dfs,
                    y_prediction_dfs |-> r.y_prediction_dfs]
    /\ spc_calls' = spc_calls + 1
    /\ spc_fit' = FitAfterCall(op, sp, dry_run, r)
    /\ UNCHANGED <<spc_data, preVars, thrVars, ensVars, concVars, funVars>>

\* fit_transform_predict with fit=True, at most max_calls calls in all
EngineFit(max_calls) ==
    /\ spc_calls < max_calls
    /\ \E sp \in DOMAIN spc_data, overwrite \in BOOLEAN, dry_run \in BOOLEAN,
          save_predictions \in BOOLEAN :
          \E r \in {SPC_fit_transform_predict(spc, FilesAt(files, sp, spc.used_cutoffs),
                        spc_data[sp].X_dfs, spc_data[sp].y_dfs, spc_data[sp].lf,
                        overwrite, TRUE, dry_run, save_predictions)} :
              FtpOutcome("fit_transform_predict", sp, dry_run, r)

\* transform_predict: fit_transform_predict with fit=False and the defaults
EngineTransform(max_calls) ==
    /\ spc_calls < max_calls
    /\ \E sp \in DOMAIN spc_data, overwrite \in BOOLEAN :
          \E r \in {SPC_fit_transform_predict(spc, FilesAt(files, sp, spc.used_cutoffs),
                        spc_data[sp].X_dfs, spc_data[sp].y_dfs, spc_data[sp].lf,
                        overwrite, FALSE, FALSE, TRUE)} :
              FtpOutcome("transform_predict", sp, FALSE, r)

\* a new process constructs the engine again on the same store, with the
\* same hyperparameters and one of the used_cutoffs
EngineConstruct(cutoffs) ==
    /\ spc_call.op # "__init__"
    /\ \E used_cutoffs \in cutoffs :
          /\ spc' = SPC_init(spc.move_avg, used_cutoffs,
                             FilesAt(files, "Train", used_cutoffs))
          /\ spc_call' = Constructed(used_cutoffs)
          /\ spc_fit' = IF /\ spc_fit.stage \in {"fit", "reloaded"}
                           /\ used_cutoffs = spc_fit.self.used_cutoffs
                        THEN [spc_fit EXCEPT !.stage = "reloaded"]
                        ELSE NoFit
    /\ UNCHANGED <<spc_data, files, spc_calls, preVars, thrVars, ensVars, concVars, funVars>>

FitTransformPredict == EngineFit(MaxCalls)

TransformPredict == EngineTransform(MaxCalls)

Construct == EngineConstruct({EngineCutoffs})

Next == FitTransformPredict \/ TransformPredict \/ Construct

Spec == Init /\ [][Next]_vars

(***************************************************************************)
(* Claims about the engine (Spec).                                         *)
(***************************************************************************)
FtpReturnedNormally ==
    spc_call.op \in {"fit_transform_predict", "transform_predict"} /\ ~spc_call.raised

\* C1: for every station of the batch passed to fit_transform_predict the
\* returned scores and the returned predictions have as many entries as the
\* station's preprocessed frame, for every window move_avg >= 1 (larger than
\* the station too) and also when the scores come from the score cache.
C1_Original ==
    FtpReturnedNormally =>
        /\ Len(spc_call.y_scores_dfs) = Len(spc_call.n_samples)
        /\ Len(spc_call.y_prediction_dfs) = Len(spc_call.n_samples)
        /\ \A k \in DOMAIN spc_call.n_samples :
              /\ Len(spc_call.y_scores_dfs[k]) = spc_call.n_samples[k]
              /\ Len(spc_call.y_prediction_dfs[k]) = spc_call.n_samples[k]


(***************************************************************************)
(* The persistence round trip: the same engine and pipeline, with more     *)
(* calls on fewer batches (SpecRoundTrip).                                 *)
(***************************************************************************)
MaxRoundTripCalls == 4

\* stations of MaxStationLen samples whose first diff is 0
RoundTripBatches ==
    {b \in EngineBatches :
        Len(b.X_dfs[1]) = MaxStationLen /\ b.X_dfs[1][1] = RInt(0)}

InitRoundTrip == EngineInit(Splits, RoundTripBatches, {1}, {EngineCutoffs})

RoundTripFit == EngineFit(MaxRoundTripCalls)

RoundTripTransform == EngineTransform(MaxRoundTripCalls)

RoundTripConstruct == EngineConstruct({EngineCutoffs})

NextRoundTrip == RoundTripFit \/ RoundTripTransform \/ RoundTripConstruct

SpecRoundTrip == InitRoundTrip /\ [][NextRoundTrip]_vars

\* the round trip is complete: fit and persisted, engine constructed anew,
\* transform_predict called on the batch of the fit
RoundTripDone == spc_fit.stage = "rescored"

\* C11: after an engine is fit and persisted, a fresh engine with the same
\* hyperparameters, preprocessing hash and used_cutoffs, run with
\* transform_predict on the batch of the fit, returns the scores and the
\* predictions of the fit and holds the threshold state of the fit,
\* used_cutoffs included.
C11_Original ==
    RoundTripDone =>
        /\ ~spc_call.raised
        /\ spc_call.y_scores_dfs = spc_fit.y_scores_dfs
        /\ spc_call.y_prediction_dfs = spc_fit.y_prediction_dfs
        /\ spc.thr = spc_fit.self.thr
        /\ spc.used_cutoffs = spc_fit.self.used_cutoffs

(***************************************************************************)
(* The model store under a preprocessing with two buckets: engines of the  *)
(* same hyperparameters and different used_cutoffs share one model pickle  *)
(* (SpecStore).                                                            *)
(***************************************************************************)
MaxStoreCalls == 3

StoreStationLen == 4

\* a spike at the first sample, a step at the last two
StoreDiffs ==
    {[i \in 1..StoreStationLen |-> IF i = 1 THEN RInt(1) ELSE RInt(0)],
     [i \in 1..StoreStationLen |-> IF i + 1 < StoreStationLen THEN RInt(0) ELSE RInt(1)]}

StoreBatches ==
    {[X_dfs |-> <<x>>, y_dfs |-> <<y>>, lf |-> BatchLabelFilters(<<y>>, StoreCutoffs)] :
        x \in StoreDiffs, y \in [1..StoreStationLen -> ThrLabels]}

\* one bucket of the preprocessing, both, or a bucket of another preprocessing
StoreUsedCutoffs == EngineUsedCutoffs

InitStore == EngineInit({"Train"}, StoreBatches, {1}, StoreUsedCutoffs)

StoreFit == EngineFit(MaxStoreCalls)

StoreTransform == EngineTransform(MaxStoreCalls)

StoreConstruct == EngineConstruct(StoreUsedCutoffs)

NextStore == StoreFit \/ StoreTransform \/ StoreConstruct

SpecStore == InitStore /\ [][NextStore]_vars

(***************************************************************************)
(* Claims about the model store (SpecStore).                               *)
(***************************************************************************)
\* the engine has just been constructed and found a model pickle to load
ConstructedFromPickle == spc_call.op = "__init__" /\ files.model.exists

\* the threshold the persisted curves give for used_cutoffs
ThresholdFor(thr, used_cutoffs) ==
    Single_calculate_and_set_thresholds(thr, used_cutoffs).self.optimal_threshold

\* C12: load_model leaves used_cutoffs at the value the engine held before
\* the load (the constructor's argument, or the attribute at the call),
\* whatever used_cutoffs the pickle holds; every other attribute takes the
\* pickled value; the threshold a call sets afterwards is the one for the
\* engine's own used_cutoffs.
C12_LoadKeepsUsedCutoffs ==
    /\ ConstructedFromPickle =>
          /\ spc.used_cutoffs = spc_call.used_cutoffs
          /\ \A a \in DOMAIN spc \ {"used_cutoffs"} : spc[a] = files.model.content[a]
    /\ FtpReturnedNormally =>
          /\ spc.used_cutoffs = spc_call.used_cutoffs
          /\ spc.thr.optimal_threshold = ThresholdFor(spc.thr, spc_call.used_cutoffs)

\* an engine loaded a pickle written under other used_cutoffs
C12_Witness ==
    /\ ConstructedFromPickle
    /\ files.model.content.used_cutoffs # spc.used_cutoffs
    /\ spc.thr = files.model.content.thr

\* and its transform_predict then set a threshold other than the pickled one
C12_WitnessRetuned ==
    /\ spc_call.op = "transform_predict" /\ ~spc_call.raised
    /\ files.model.exists
    /\ files.model.content.used_cutoffs # spc.used_cutoffs
    /\ spc.thr.recall = files.model.content.thr.recall
    /\ spc.thr.optimal_threshold # files.model.content.thr.optimal_threshold

\* a fit returned
FitReturned == spc_call.op = "fit_transform_predict" /\ ~spc_call.raised

C14_WitnessReloaded ==
    /\ FitReturned /\ ~spc_call.dry_run /\ spc_call.reloaded
    /\ files.model.content.thr.optimal_threshold # spc.thr.optimal_threshold

\* a fit with dry_run=True returned and left no model pickle
C14_WitnessDryRun ==
    /\ FitReturned /\ spc_call.dry_run
    /\ ~files.model.exists



\* C27: whenever fit_transform_predict or transform_predict of an engine
\* returns, the returned predictions are the threshold rule applied to the
\* returned scores with the engine's current threshold, in every branch,
\* also when the predictions are reloaded from the prediction cache.
C27_Original ==
    (/\ spc_call.op \in {"fit_transform_predict", "transform_predict"}
     /\ ~spc_call.raised) =>
        \A k \in DOMAIN spc_call.y_scores_dfs :
            /\ DOMAIN spc_call.y_prediction_dfs[k] = DOMAIN spc_call.y_scores_dfs[k]
            /\ \A i \in DOMAIN spc_call.y_scores_dfs[k] :
                  spc_call.y_prediction_dfs[k][i] = 1 <=>
                      RLe(spc.thr.optimal_threshold, RAbs(spc_call.y_scores_dfs[k][i]))

\* optimize_thresholds of a threshold method that has optimised nothing yet,
\* on the batch of the last call and the scores that call returned
FitOnBatch ==
    Single_optimize_thresholds(SingleThresholdMethod_init,
        spc_data[spc_call.sp].y_dfs, spc_call.y_scores_dfs, spc_data[spc_call.sp].lf,
        spc_call.used_cutoffs, FALSE, InterpLen)

\* C28: after a fit_transform_predict with fit=True on a batch the engine's
\* threshold is the one optimal for that batch's labels and scores, whatever
\* the engine held before: nothing, the fit of another batch, or a fitted
\* model loaded from the model pickle.
C28_Original ==
    (spc_call.op = "fit_transform_predict" /\ ~spc_call.raised) =>
        spc.thr.optimal_threshold = FitOnBatch.self.optimal_threshold

\* the call about to end uses a bucket that the preprocessing of its batch
\* does not have
ForeignBucketFit ==
    /\ spc_calls' = spc_calls + 1
    /\ spc_call'.op = "fit_transform_predict"
    /\ \E c \in Range(spc.used_cutoffs) : c \notin DOMAIN spc_data[spc_call'.sp].lf[1]

\* C17: a fit_transform_predict whose used bucket is not in the preprocessed
\* cutoff set raises, and at the moment it raises the call has persisted no
\* score, prediction or model.
C17_Original == [][ForeignBucketFit => (spc_call'.raised /\ files' = files)]_vars

(***************************************************************************)
(* methods.py: StackEnsemble over StatisticalProcessControl engines.       *)
(* An engine's pickles are found by its hyperparameter hash, that is by    *)
(* its move_avg: engines with the same move_avg share them.                *)
(***************************************************************************)
NoEngineFiles == [scores |-> NoFile, predictions |-> NoFile, model |-> NoFile]

\* np.logical_or of two arrays of one shape (True is 1, False is 0)
np_logical_or(a, b) ==
    Array([i \in DOMAIN a |-> IF a[i] # 0 \/ b[i] # 0 THEN 1 ELSE 0])

np_logical_and(a, b) ==
    Array([i \in DOMAIN a |-> IF a[i] # 0 /\ b[i] # 0 THEN 1 ELSE 0])

\* np.logical_and.reduce
RECURSIVE np_logical_and_reduce(_)
np_logical_and_reduce(arrs) ==
    IF Len(arrs) = 1 THEN np_logical_or(arrs[1], arrs[1])
    ELSE np_logical_and(arrs[1], np_logical_and_reduce(Tail(arrs)))

\* np.logical_or.reduce over the first axis
RECURSIVE np_logical_or_reduce(_)
np_logical_or_reduce(arrs) ==
    IF Len(arrs) = 1 THEN np_logical_or(arrs[1], arrs[1])
    ELSE np_logical_or(arrs[1], np_logical_or_reduce(Tail(arrs)))

\* np.logical_or.reduce of frames of different lengths raises
SameShapes(prediction_list) ==
    \A e \in DOMAIN prediction_list : \A k \in DOMAIN prediction_list[1] :
        /\ k \in DOMAIN prediction_list[e]
        /\ Len(prediction_list[e][k]) = Len(prediction_list[1][k])

\* StackEnsemble._combine_predictions with np.logical_and.reduce
Stack_combine_predictions_and(prediction_list) ==
    Array([i \in DOMAIN prediction_list[1] |->
        np_logical_and_reduce([e \in DOMAIN prediction_list |-> prediction_list[e][i]])])

\* StackEnsemble._combine_predictions
Stack_combine_predictions(prediction_list) ==
    Array([i \in DOMAIN prediction_list[1] |->
        np_logical_or_reduce([e \in DOMAIN prediction_list |-> prediction_list[e][i]])])

\* pd.concat([scores[i] for scores in _scores], axis=1): one column per
\* engine, rows aligned on the index, "nan" where an engine has no row
Stack_concat_scores(_scores) ==
    Array([i \in DOMAIN _scores[1] |->
        Array([row \in 1..MaxNat({Len(_scores[e][i]) : e \in DOMAIN _scores}) |->
            [e \in DOMAIN _scores |->
                IF row \in DOMAIN _scores[e][i] THEN _scores[e][i][row] ELSE "nan"]])])

StackRaised(self, store) ==
    [self |-> self, files |-> store, raised |-> TRUE, reloaded |-> FALSE,
     scores |-> <<>>, predictions |-> <<>>, _predictions |-> <<>>]

\* for model in self.models: model.fit_transform_predict(...), in order, up
\* to the first engine that raises
RECURSIVE Stack_run_models(_, _, _, _, _, _, _, _, _)
RECURSIVE Stack_after_model(_, _, _, _, _, _, _, _, _, _)
Stack_run_models(models, store, i, batch, overwrite, fit, dry_run, _scores, _predictions) ==
    IF i > Len(models)
    THEN [models |-> models, files |-> store, raised |-> FALSE,
          _scores |-> _scores, _predictions |-> _predictions]
    ELSE Stack_after_model(models, store, i, batch, overwrite, fit, dry_run,
             _scores, _predictions,
             SPC_fit_transform_predict(models[i], store.engines[models[i].move_avg],
                 batch.X_dfs, batch.y_dfs, batch.lf, overwrite, fit, dry_run, TRUE))

Stack_after_model(models, store, i, batch, overwrite, fit, dry_run, _scores, _predictions, r) ==
    IF r.raised
    THEN [models |-> [models EXCEPT ![i] = r.self],
          files |-> [store EXCEPT !.engines[models[i].move_avg] = r.files],
          raised |-> TRUE, _scores |-> _scores, _predictions |-> _predictions]
    ELSE Stack_run_models([models EXCEPT ![i] = r.self],
             [store EXCEPT !.engines[models[i].move_avg] = r.files],
             i + 1, batch, overwrite, fit, dry_run,
             Append(_scores, r.y_scores_dfs), Append(_predictions, r.y_prediction_dfs))

\* the results written (if save_results) and the ensemble pickled
Stack_ftp_write(self, store, scores, predictions, _predictions, dry_run, save_results) ==
    [self |-> self,
     files |-> IF dry_run THEN store
               ELSE IF save_results
                    THEN [store EXCEPT !.scores = File(scores),
                                       !.predictions = File(predictions),
                                       !.model = File(self)]
                    ELSE [store EXCEPT !.model = File(self)],
     raised |-> FALSE, reloaded |-> FALSE,
     scores |-> scores, predictions |-> predictions, _predictions |-> _predictions]

\* after the loop over the engines; _scores[0] of no engine is an IndexError
Stack_ftp_combine(self, run, dry_run, save_results) ==
    IF run.raised \/ Len(run._scores) = 0 \/ ~SameShapes(run._predictions)
    THEN StackRaised([self EXCEPT !.models = run.models], run.files)
    ELSE Stack_ftp_write([self EXCEPT !.models = run.models], run.files,
             Stack_concat_scores(run._scores),
             Stack_combine_predictions(run._predictions),
             run._predictions, dry_run, save_results)

\* StackEnsemble.fit_transform_predict
Stack_fit_transform_predict(self, store, batch, overwrite, fit, dry_run, save_results) ==
    IF store.scores.exists /\ store.predictions.exists /\ store.model.exists /\ ~overwrite
    THEN [self |-> store.model.content, files |-> store,
          raised |-> FALSE, reloaded |-> TRUE,
          scores |-> store.scores.content,
          predictions |-> store.predictions.content, _predictions |-> <<>>]
    ELSE Stack_ftp_combine(self,
             Stack_run_models(self.models, store, 1, batch, overwrite, fit, dry_run,
                              <<>>, <<>>),
             dry_run, save_results)

\* StackEnsemble.__init__: the engines are constructed, then
\* SaveableModel.__init__ loads the ensemble's pickle when it exists
Stack_init(windows, store) ==
    IF store.model.exists THEN store.model.content
    ELSE [is_ensemble |-> TRUE,
          windows |-> windows,
          models |-> [i \in DOMAIN windows |->
              SPC_init(windows[i], EngineCutoffs, store.engines[windows[i]])]]

(***************************************************************************)
(* The StackEnsemble as a state machine: one ensemble of up to MaxEngines  *)
(* engines, constructed on an empty store and called on one batch of one   *)
(* station.                                                                *)
(***************************************************************************)
EnsBatches ==
    UNION {
        {[X_dfs |-> <<x>>, y_dfs |-> <<y>>, lf |-> BatchLabelFilters(<<y>>, EngineCutoffs)] :
            x \in [1..n -> EngineDiffValues], y \in [1..n -> ThrLabels]}
        : n \in 1..MaxSamples}

\* method_hyperparameter_dict_list: the move_avg of every engine
StackWindows == SeqsUpTo(1..MaxWindow, MaxEngines)

EmptyStackStore ==
    [engines |-> [w \in 1..MaxWindow |-> NoEngineFiles],
     scores |-> NoFile, predictions |-> NoFile, model |-> NoFile]

EnsConstructed == [op |-> "__init__", raised |-> FALSE, reloaded |-> FALSE,
                   scores |-> <<>>, predictions |-> <<>>, _predictions |-> <<>>]

InitStack ==
    /\ PreIdle
    /\ ConcIdle
    /\ FunIdle
    /\ ThrIdle
    /\ SpcIdle
    /\ ens_data \in EnsBatches
    /\ ens_files = EmptyStackStore
    /\ \E windows \in StackWindows : ens = Stack_init(windows, EmptyStackStore)
    /\ ens_call = EnsConstructed
    /\ ens_calls = 0

StackOutcome(op, r) ==
    /\ ens' = r.self
    /\ ens_files' = r.files
    /\ ens_call' = [op |-> op, raised |-> r.raised, reloaded |-> r.reloaded,
                    scores |-> r.scores, predictions |-> r.predictions,
                    _predictions |-> r._predictions]
    /\ ens_calls' = ens_calls + 1
    /\ UNCHANGED <<ens_data, preVars, thrVars, spcVars, concVars, funVars>>

\* StackEnsemble.fit_transform_predict with fit=True
StackFitTransformPredict ==
    /\ ens_calls < MaxCalls
    /\ \E overwrite \in BOOLEAN, dry_run \in BOOLEAN, save_results \in BOOLEAN :
          \E r \in {Stack_fit_transform_predict(ens, ens_files, ens_data,
                        overwrite, TRUE, dry_run, save_results)} :
              StackOutcome("fit_transform_predict", r)

\* StackEnsemble.transform_predict
StackTransformPredict ==
    /\ ens_calls < MaxCalls
    /\ \E overwrite \in BOOLEAN, dry_run \in BOOLEAN, save_results \in BOOLEAN :
          \E r \in {Stack_fit_transform_predict(ens, ens_files, ens_data,
                        overwrite, FALSE, dry_run, save_results)} :
              StackOutcome("transform_predict", r)

\* a new process constructs the ensemble again on the same store
StackConstruct ==
    /\ ens_call # EnsConstructed
    /\ ens' = Stack_init(ens.windows, ens_files)
    /\ ens_call' = EnsConstructed
    /\ UNCHANGED <<ens_data, ens_files, ens_calls, preVars, thrVars, spcVars, concVars, funVars>>

NextStack == StackFitTransformPredict \/ StackTransformPredict \/ StackConstruct

SpecStack == InitStack /\ [][NextStack]_vars

(***************************************************************************)
(* Claims about the StackEnsemble (SpecStack).                             *)
(***************************************************************************)
StackReturned ==
    /\ ens_call.op \in {"fit_transform_predict", "transform_predict"}
    /\ ~ens_call.raised

\* the prediction of engine e for sample i of station k, in the call
SubPrediction(e, k, i) == ens_call._predictions[e][k][i]

\* in a call that ran the engines: OR of what the engines returned
C6_Computed ==
    (StackReturned /\ ~ens_call.reloaded) =>
        \A k \in DOMAIN ens_call.predictions :
            /\ Len(ens_call.predictions[k]) = Len(ens_data.X_dfs[k])
            /\ \A i \in DOMAIN ens_call.predictions[k] :
                  (ens_call.predictions[k][i] = 1) <=>
                      (\E e \in DOMAIN ens_call._predictions : SubPrediction(e, k, i) = 1)

\* in a call that reloaded the results: OR of the engines' pickled predictions
C6_Reloaded ==
    (StackReturned /\ ens_call.reloaded) =>
        /\ \A e \in DOMAIN ens.models :
              ens_files.engines[ens.models[e].move_avg].predictions.exists
        /\ \A k \in DOMAIN ens_call.predictions :
              \A i \in DOMAIN ens_call.predictions[k] :
                  (ens_call.predictions[k][i] = 1) <=>
                      (\E e \in DOMAIN ens.models :
                          ens_files.engines[ens.models[e].move_avg].predictions.content[k][i] = 1)

\* C6: for every station and every sample the StackEnsemble's prediction is
\* 1 if and only if at least one engine's prediction for that sample is 1,
\* for one engine and for several.
C6_StackLogicalOr == C6_Computed /\ C6_Reloaded

\* two engines disagree on a sample and the ensemble flags it
C6_Witness ==
    /\ StackReturned /\ ~ens_call.reloaded
    /\ \E k \in DOMAIN ens_call.predictions : \E i \in DOMAIN ens_call.predictions[k] :
          /\ ens_call.predictions[k][i] = 1
          /\ \E e1, e2 \in DOMAIN ens_call._predictions :
                SubPrediction(e1, k, i) = 1 /\ SubPrediction(e2, k, i) = 0

\* reloaded results with a flagged and an unflagged sample
C6_WitnessReloaded ==
    /\ StackReturned /\ ens_call.reloaded
    /\ \E k \in DOMAIN ens_call.predictions :
          \E i, j \in DOMAIN ens_call.predictions[k] :
              ens_call.predictions[k][i] = 1 /\ ens_call.predictions[k][j] = 0

\* no engine flags a sample and the ensemble does not flag it
C6_WitnessUnflagged ==
    /\ StackReturned /\ ~ens_call.reloaded
    /\ Len(ens_call._predictions) = 2
    /\ \E k \in DOMAIN ens_call.predictions : \E i \in DOMAIN ens_call.predictions[k] :
          ens_call.predictions[k][i] = 0

(***************************************************************************)
(* methods.py: BinarySegmentation with either threshold optimiser, the     *)
(* segmentation engine of a SequentialEnsemble.  The optimiser attributes  *)
(* are under thr; reference_point is "median".                             *)
(***************************************************************************)
IsSingle(thr) == thr.threshold_optimization_method = "SingleThreshold"

\* self.optimize_thresholds of the class the engine mixes in
Thr_optimize_thresholds(thr, y_dfs, y_scores_dfs, lf, used_cutoffs) ==
    IF IsSingle(thr)
    THEN Single_optimize_thresholds(thr, y_dfs, y_scores_dfs, lf, used_cutoffs,
                                    FALSE, InterpLen)
    ELSE Double_optimize_thresholds(thr, y_dfs, y_scores_dfs, lf, used_cutoffs,
                                    FALSE, InterpLen)

Thr_calculate_and_set_thresholds(thr, used_cutoffs) ==
    IF IsSingle(thr)
    THEN Single_calculate_and_set_thresholds(thr, used_cutoffs)
    ELSE Double_calculate_and_set_thresholds(thr, used_cutoffs)

Thr_predict_from_scores_dfs(thr, y_scores_dfs) ==
    IF IsSingle(thr)
    THEN Single_predict_from_scores_dfs(thr, y_scores_dfs)
    ELSE Double_predict_from_scores_dfs(thr, y_scores_dfs)

NoSegFiles ==
    [scores |-> NoFile, breakpoints |-> NoFile, segment_means |-> NoFile,
     predictions |-> NoFile, model |-> NoFile]

BS_fresh(threshold_method_init, move_avg, scaling, used_cutoffs) ==
    [score_calculation_method_name |-> "BinarySegmentation",
     method_name |-> IF IsSingle(threshold_method_init)
                     THEN "SingleThresholdBS" ELSE "DoubleThresholdBS",
     quantiles |-> <<quantile_low, quantile_high>>,
     scaling |-> scaling,
     reference_point |-> "median",
     used_cutoffs |-> used_cutoffs,
     move_avg |-> move_avg,
     thr |-> threshold_method_init,
     segment_means_per_station |-> <<>>,
     breakpoints_per_station |-> <<>>]

\* {Single,Double}ThresholdBinarySegmentation.__init__ on a store
BS_init(threshold_method_init, move_avg, scaling, used_cutoffs, fs) ==
    IF fs.model.exists
    THEN load_model(BS_fresh(threshold_method_init, move_avg, scaling, used_cutoffs), fs)
    ELSE BS_fresh(threshold_method_init, move_avg, scaling, used_cutoffs)

\* the signal of a station: "diff", scaled and then averaged if self.scaling
BS_signal(self, diff) ==
    IF self.scaling
    THEN moving_average(RobustScaler_fit_transform(diff, self.quantiles), self.move_avg)
    ELSE diff

RECURSIVE SortedSeqOfSet(_)
SortedSeqOfSet(S) ==
    IF S = {} THEN <<>>
    ELSE <<CHOOSE x \in S : \A y \in S : x <= y>>
         \o SortedSeqOfSet(S \ {CHOOSE x \in S : \A y \in S : x <= y})

\* get_breakpoints: rpt.Binseg.fit_predict returns the change points it
\* finds in the signal, ascending, followed by len(signal); cuts are the
\* change points the library finds in this station
get_breakpoints(signal, cuts) ==
    SortedSeqOfSet({c \in cuts : c < Len(signal)} \cup {Len(signal)})

np_mean(arr) == RDiv(RSum(arr), RInt(Len(arr)))

np_median(arr) == np_percentile_sorted(SortAsc(arr), 50)

\* signal[prev_bkp:bkp]
Slice(arr, begin, end) == SubSeq(arr, begin + 1, Min2(end, Len(arr)))

\* _data_to_score: per segment its mean, and as score of its samples the
\* mean minus the reference point value
RECURSIVE data_to_score_loop(_, _, _, _, _, _, _)
data_to_score_loop(signal, bkps, j, prev_bkp, reference_point_value, y_score, segment_means) ==
    IF j > Len(bkps)
    THEN [y_score |-> y_score, segment_means |-> segment_means]
    ELSE data_to_score_loop(signal, bkps, j + 1, bkps[j], reference_point_value,
             Array([i \in DOMAIN y_score |->
                 IF prev_bkp < i /\ i <= bkps[j]
                 THEN RSub(np_mean(Slice(signal, prev_bkp, bkps[j])), reference_point_value)
                 ELSE y_score[i]]),
             Append(segment_means, np_mean(Slice(signal, prev_bkp, bkps[j]))))

\* the scores without the reference point value: the segment means
data_to_score_njit_means(signal, bkps, reference_point_value) ==
    data_to_score_loop(signal, bkps, 1, 0, RZero,
                       [i \in DOMAIN signal |-> RZero], <<>>)

\* _data_to_score(signal, bkps, reference_point_value)
data_to_score_njit(signal, bkps, reference_point_value) ==
    data_to_score_loop(signal, bkps, 1, 0, reference_point_value,
                       [i \in DOMAIN signal |-> RZero], <<>>)

\* data_to_score with reference_point = "median"
data_to_score(signal, bkps) ==
    data_to_score_njit(signal, bkps, np_median(signal))

\* the last statements of fit_transform_predict: the segment means and the
\* breakpoints of this call become attributes
BS_ftp_finish(self, fs, y_scores_dfs, y_prediction_dfs, segment_means, breakpoints) ==
    FtpReturned([self EXCEPT !.segment_means_per_station = segment_means,
                             !.breakpoints_per_station = breakpoints],
                fs, y_scores_dfs, y_prediction_dfs)

\* predictions and model reloaded: the pickled predictions are returned
BS_ftp_reloaded(self, fs, t, y_scores_dfs, segment_means, breakpoints) ==
    IF t.raised
    THEN FtpRaised([self EXCEPT !.thr = t.self], fs)
    ELSE BS_ftp_finish([self EXCEPT !.thr = t.self], fs, y_scores_dfs,
                       fs.predictions.content, segment_means, breakpoints)

\* predictions computed, then the predictions and (if fit) the model written
BS_ftp_write(self, fs, y_scores_dfs, y_prediction_dfs, segment_means, breakpoints, fit, dry_run) ==
    BS_ftp_finish(self,
        IF dry_run THEN fs
        ELSE IF fit
             THEN save_model(self, [fs EXCEPT !.predictions = File(y_prediction_dfs)])
             ELSE [fs EXCEPT !.predictions = File(y_prediction_dfs)],
        y_scores_dfs, y_prediction_dfs, segment_means, breakpoints)

BS_ftp_computed(self, fs, t, y_scores_dfs, segment_means, breakpoints, fit, dry_run) ==
    IF t.raised
    THEN FtpRaised([self EXCEPT !.thr = t.self], fs)
    ELSE BS_ftp_write([self EXCEPT !.thr = t.self], fs, y_scores_dfs,
                      Thr_predict_from_scores_dfs(t.self, y_scores_dfs),
                      segment_means, breakpoints, fit, dry_run)

\* fit_transform_predict from "Get predictions from scores" on; a reloaded
\* model only has its thresholds set again
BS_ftp_predictions(self, fs, y_scores_dfs, segment_means, breakpoints, y_dfs, lf, overwrite, fit, dry_run) ==
    IF fs.predictions.exists /\ fs.model.exists /\ ~overwrite
    THEN BS_ftp_reloaded(load_model(self, fs), fs,
             Thr_calculate_and_set_thresholds(load_model(self, fs).thr, self.used_cutoffs),
             y_scores_dfs, segment_means, breakpoints)
    ELSE BS_ftp_computed(self, fs,
             IF fit
             THEN Thr_optimize_thresholds(self.thr, y_dfs, y_scores_dfs, lf,
                                          self.used_cutoffs)
             ELSE Thr_calculate_and_set_thresholds(self.thr, self.used_cutoffs),
             y_scores_dfs, segment_means, breakpoints, fit, dry_run)

\* the scores and segment means of every station, written unless dry_run
BS_ftp_scores(self, fs, scored, breakpoints, y_dfs, lf, overwrite, fit, dry_run) ==
    BS_ftp_predictions(self,
        IF dry_run THEN fs
        ELSE [fs EXCEPT
                 !.scores = File(Array([k \in DOMAIN scored |-> scored[k].y_score])),
                 !.segment_means =
                     File(Array([k \in DOMAIN scored |-> scored[k].segment_means]))],
        Array([k \in DOMAIN scored |-> scored[k].y_score]),
        Array([k \in DOMAIN scored |-> scored[k].segment_means]),
        breakpoints, y_dfs, lf, overwrite, fit, dry_run)

\* for bkps, signal in zip(breakpoints_per_station, signals)
BS_ftp_data_to_score(self, fs, signals, breakpoints, y_dfs, lf, overwrite, fit, dry_run) ==
    BS_ftp_scores(self, fs,
        Array([k \in 1..Min2(Len(breakpoints), Len(signals)) |->
            data_to_score(signals[k], breakpoints[k])]),
        breakpoints, y_dfs, lf, overwrite, fit, dry_run)

\* the breakpoints are reloaded when breakpoints.pickle exists and overwrite
\* is not set, else calculated and (unless dry_run) written
BS_ftp_breakpoints(self, fs, signals, cuts, y_dfs, lf, overwrite, fit, dry_run) ==
    IF fs.breakpoints.exists /\ ~overwrite
    THEN BS_ftp_data_to_score(self, fs, signals, fs.breakpoints.content,
                              y_dfs, lf, overwrite, fit, dry_run)
    ELSE BS_ftp_data_to_score(self,
             IF dry_run THEN fs
             ELSE [fs EXCEPT !.breakpoints =
                      File(Array([k \in DOMAIN signals |->
                          get_breakpoints(signals[k], cuts[k])]))],
             signals,
             Array([k \in DOMAIN signals |-> get_breakpoints(signals[k], cuts[k])]),
             y_dfs, lf, overwrite, fit, dry_run)

\* BinarySegmentation.fit_transform_predict
BS_fit_transform_predict(self, fs, cuts, X_dfs, y_dfs, lf, overwrite, fit, dry_run) ==
    IF fs.scores.exists /\ fs.breakpoints.exists /\ fs.segment_means.exists /\ ~overwrite
    THEN BS_ftp_predictions(self, fs, fs.scores.content, fs.segment_means.content,
                            fs.breakpoints.content, y_dfs, lf, overwrite, fit, dry_run)
    ELSE BS_ftp_breakpoints(self, fs,
             Array([k \in DOMAIN X_dfs |-> BS_signal(self, X_dfs[k])]),
             cuts, y_dfs, lf, overwrite, fit, dry_run)

(***************************************************************************)
(* methods.py: SequentialEnsemble of a BinarySegmentation engine (Seg) and *)
(* a SingleThresholdStatisticalProcessControl engine (AD).                 *)
(***************************************************************************)
single_threshold_function(value, threshold) == RLe(threshold, RAbs(value))

double_threshold_function(value, thresholds) ==
    RLt(value, thresholds[1]) \/ RLe(thresholds[2], value)

\* self.threshold_function(segment_mean, self.segmentation_method.optimal_threshold)
Seq_threshold_function(self, segment_mean) ==
    IF self.threshold_function = "single_threshold_function"
    THEN single_threshold_function(segment_mean,
                                   self.segmentation_method.thr.optimal_threshold)
    ELSE double_threshold_function(segment_mean,
                                   self.segmentation_method.thr.optimal_threshold)

\* the test handing a segment to AD, without its "not"
Seq_to_anomaly_detector_flagged(self, segment_mean) ==
    Seq_threshold_function(self, segment_mean)

\* if not self.threshold_function(segment_mean, ...): the segment goes to AD
Seq_to_anomaly_detector(self, segment_mean) ==
    ~Seq_threshold_function(self, segment_mean)

\* for segment_mean, bkp in zip(segment_means, breakpoints): the (prev_bkp,
\* bkp) of the segments of one station that go to AD; a breakpoint beyond
\* the station raises (RuntimeError)
RECURSIVE Seq_segments_loop(_, _, _, _, _, _, _)
Seq_segments_loop(self, n, segment_means, breakpoints, j, prev_bkp, indices) ==
    IF j > Min2(Len(segment_means), Len(breakpoints))
    THEN [raised |-> FALSE, indices |-> indices]
    ELSE IF breakpoints[j] > n
    THEN [raised |-> TRUE, indices |-> indices]
    ELSE Seq_segments_loop(self, n, segment_means, breakpoints, j + 1, breakpoints[j],
             IF Seq_to_anomaly_detector(self, segment_means[j])
             THEN Append(indices, <<prev_bkp, breakpoints[j]>>)
             ELSE indices)

\* the segments of every station, flattened: <<station, prev_bkp, bkp>>
RECURSIVE Seq_flatten(_, _)
Seq_flatten(per_station, k) ==
    IF k > Len(per_station) THEN <<>>
    ELSE [s \in DOMAIN per_station[k].indices |->
             <<k, per_station[k].indices[s][1], per_station[k].indices[s][2]>>]
         \o Seq_flatten(per_station, k + 1)

\* frames[df_index].iloc[begin:end] = value, for the zipped segments in
\* order; a value of another length than the slice raises (ValueError)
RECURSIVE Seq_write_back(_, _, _, _)
Seq_write_back(frames, segments, values, s) ==
    IF s > Min2(Len(segments), Len(values))
    THEN [raised |-> FALSE, frames |-> frames]
    ELSE IF Len(values[s]) #
            Len(Slice(frames[segments[s][1]], segments[s][2], segments[s][3]))
    THEN [raised |-> TRUE, frames |-> frames]
    ELSE Seq_write_back(
             [frames EXCEPT ![segments[s][1]] =
                 Array([i \in DOMAIN @ |->
                     IF segments[s][2] < i /\ i <= segments[s][3]
                     THEN values[s][i - segments[s][2]] ELSE @[i]])],
             segments, values, s + 1)

\* pd.concat([segmenter_score.squeeze(), ad_score.squeeze()], axis=1)
Seq_concat_scores(y_scores_dfs_segmenter, final_ad_scores) ==
    Array([k \in 1..Min2(Len(y_scores_dfs_segmenter), Len(final_ad_scores)) |->
        Array([i \in DOMAIN y_scores_dfs_segmenter[k] |->
            <<y_scores_dfs_segmenter[k][i], final_ad_scores[k][i]>>])])

SeqRaised(self, store) ==
    [self |-> self, files |-> store, raised |-> TRUE, reloaded |-> FALSE,
     scores |-> <<>>, predictions |-> <<>>, segmenter |-> <<>>,
     segments |-> <<>>, anomaly_detector |-> <<>>]

\* the results written (if save_results) and the ensemble pickled
Seq_ftp_write(self, store, final_scores, final_predictions, g, segments, r, dry_run, save_results) ==
    [self |-> self,
     files |-> IF dry_run THEN store
               ELSE IF save_results
                    THEN [store EXCEPT !.scores = File(final_scores),
                                       !.predictions = File(final_predictions),
                                       !.model = File(self)]
                    ELSE [store EXCEPT !.model = File(self)],
     raised |-> FALSE, reloaded |-> FALSE,
     scores |-> final_scores, predictions |-> final_predictions,
     segmenter |-> [y_scores_dfs |-> g.y_scores_dfs,
                    y_prediction_dfs |-> g.y_prediction_dfs],
     segments |-> segments,
     anomaly_detector |-> [y_scores_dfs |-> r.y_scores_dfs,
                           y_prediction_dfs |-> r.y_prediction_dfs]]

\* the predictions and AD scores written back; squeeze() of a one-row frame
\* is a scalar, which pd.concat rejects (TypeError)
Seq_recombine(self, store, g, segments, r, written_predictions, written_scores, dry_run, save_results) ==
    IF \/ written_predictions.raised
       \/ written_scores.raised
       \/ \E k \in DOMAIN g.y_scores_dfs : Len(g.y_scores_dfs[k]) = 1
    THEN SeqRaised(self, store)
    ELSE Seq_ftp_write(self, store,
             Seq_concat_scores(g.y_scores_dfs, written_scores.frames),
             written_predictions.frames, g, segments, r, dry_run, save_results)

Seq_after_AD(self, store, g, segments, r, dry_run, save_results) ==
    IF r.raised
    THEN SeqRaised([self EXCEPT !.anomaly_detection_method = r.self],
                   [store EXCEPT !.ad = r.files])
    ELSE Seq_recombine([self EXCEPT !.anomaly_detection_method = r.self],
             [store EXCEPT !.ad = r.files], g, segments, r,
             Seq_write_back(g.y_prediction_dfs, segments, r.y_prediction_dfs, 1),
             Seq_write_back(g.y_scores_dfs, segments, r.y_scores_dfs, 1),
             dry_run, save_results)

\* what AD is called on: of every segment the slice of the signal, of the
\* labels and of every label filter
Seq_signal_segments(X_dfs, segments) ==
    Array([s \in DOMAIN segments |->
        Slice(X_dfs[segments[s][1]], segments[s][2], segments[s][3])])

Seq_label_filter_segments(lf, segments) ==
    Array([s \in DOMAIN segments |->
        Array([c \in DOMAIN lf[segments[s][1]] |->
            Slice(lf[segments[s][1]][c], segments[s][2], segments[s][3])])])

\* self.anomaly_detection_method.fit_transform_predict(..., save_predictions=False)
Seq_call_AD(self, store, batch, g, segments, overwrite, fit, dry_run, save_results) ==
    Seq_after_AD(self, store, g, segments,
        SPC_fit_transform_predict(self.anomaly_detection_method, store.ad,
            Seq_signal_segments(batch.X_dfs, segments),
            Seq_signal_segments(batch.y_dfs, segments),
            Seq_label_filter_segments(batch.lf, segments),
            overwrite, fit, dry_run, FALSE),
        dry_run, save_results)

Seq_route(self, store, batch, g, per_station, overwrite, fit, dry_run, save_results) ==
    IF \E k \in DOMAIN per_station : per_station[k].raised
    THEN SeqRaised(self, store)
    ELSE Seq_call_AD(self, store, batch, g, Seq_flatten(per_station, 1),
                     overwrite, fit, dry_run, save_results)

\* after Seg's fit_transform_predict: the loop over the zipped stations
Seq_after_segmenter(self, store, batch, g, overwrite, fit, dry_run, save_results) ==
    IF g.raised
    THEN SeqRaised([self EXCEPT !.segmentation_method = g.self],
                   [store EXCEPT !.seg = g.files])
    ELSE Seq_route([self EXCEPT !.segmentation_method = g.self],
             [store EXCEPT !.seg = g.files], batch, g,
             Array([k \in 1..MinNat({Len(batch.X_dfs), Len(batch.y_dfs), Len(batch.lf),
                                     Len(g.y_prediction_dfs),
                                     Len(g.self.segment_means_per_station),
                                     Len(g.self.breakpoints_per_station)}) |->
                 Seq_segments_loop([self EXCEPT !.segmentation_method = g.self],
                     Len(batch.X_dfs[k]),
                     g.self.segment_means_per_station[k],
                     g.self.breakpoints_per_station[k], 1, 0, <<>>)]),
             overwrite, fit, dry_run, save_results)

\* SequentialEnsemble.fit_transform_predict
Seq_fit_transform_predict(self, store, batch, overwrite, fit, dry_run, save_results) ==
    IF store.scores.exists /\ store.predictions.exists /\ store.model.exists /\ ~overwrite
    THEN [self |-> store.model.content, files |-> store,
          raised |-> FALSE, reloaded |-> TRUE,
          scores |-> store.scores.content,
          predictions |-> store.predictions.content,
          segmenter |-> <<>>, segments |-> <<>>, anomaly_detector |-> <<>>]
    ELSE Seq_after_segmenter(self, store, batch,
             BS_fit_transform_predict(self.segmentation_method, store.seg, batch.cuts,
                 batch.X_dfs, batch.y_dfs, batch.lf, overwrite, fit, dry_run),
             overwrite, fit, dry_run, save_results)

\* SequentialEnsemble.__init__: both engines are constructed, the threshold
\* function chosen, then SaveableModel.__init__ loads the ensemble's pickle
\* when it exists
Seq_init(hyperparameters, store) ==
    IF store.model.exists THEN store.model.content
    ELSE [is_ensemble |-> TRUE,
          method_hyperparameter_list |-> hyperparameters,
          segmentation_method |->
              BS_init(hyperparameters.threshold_method, hyperparameters.seg_move_avg,
                      hyperparameters.scaling, EngineCutoffs, store.seg),
          anomaly_detection_method |->
              SPC_init(hyperparameters.ad_move_avg, EngineCutoffs, store.ad),
          threshold_function |->
              IF IsSingle(hyperparameters.threshold_method)
              THEN "single_threshold_function" ELSE "double_threshold_function"]

(***************************************************************************)
(* The SequentialEnsemble as a state machine: one ensemble, constructed on *)
(* an empty store and called on one batch of one station.  A station has   *)
(* at least two samples: squeeze() turns a one-sample frame into a scalar. *)
(***************************************************************************)
\* a batch, and per station the change points rpt.Binseg finds in it
SeqBatches ==
    UNION {
        {[X_dfs |-> <<x>>, y_dfs |-> <<y>>,
          lf |-> BatchLabelFilters(<<y>>, EngineCutoffs), cuts |-> <<cuts>>] :
            x \in [1..n -> EngineDiffValues], y \in [1..n -> ThrLabels],
            cuts \in SUBSET (1..(n - 1))}
        : n \in 2..MaxSamples}

\* method_hyperparameter_dict_list of the two engines, and Seg's class
SeqHyperparameters ==
    [threshold_method : {SingleThresholdMethod_init, DoubleThresholdMethod_init},
     seg_move_avg : 1..MaxSegWindow,
     scaling : {TRUE},
     ad_move_avg : 1..MaxSegWindow]

EmptySeqStore ==
    [seg |-> NoSegFiles, ad |-> NoEngineFiles,
     scores |-> NoFile, predictions |-> NoFile, model |-> NoFile]

SeqConstructed == [op |-> "__init__", raised |-> FALSE, reloaded |-> FALSE,
                   scores |-> <<>>, predictions |-> <<>>, segmenter |-> <<>>,
                   segments |-> <<>>, anomaly_detector |-> <<>>]

InitSeq ==
    /\ PreIdle
    /\ ConcIdle
    /\ FunIdle
    /\ ThrIdle
    /\ SpcIdle
    /\ ens_data \in SeqBatches
    /\ ens_files = EmptySeqStore
    /\ \E hyperparameters \in SeqHyperparameters :
          ens = Seq_init(hyperparameters, EmptySeqStore)
    /\ ens_call = SeqConstructed
    /\ ens_calls = 0

SeqOutcome(op, r) ==
    /\ ens' = r.self
    /\ ens_files' = r.files
    /\ ens_call' = [op |-> op, raised |-> r.raised, reloaded |-> r.reloaded,
                    scores |-> r.scores, predictions |-> r.predictions,
                    segmenter |-> r.segmenter, segments |-> r.segments,
                    anomaly_detector |-> r.anomaly_detector]
    /\ ens_calls' = ens_calls + 1
    /\ UNCHANGED <<ens_data, preVars, thrVars, spcVars, concVars, funVars>>

\* SequentialEnsemble.fit_transform_predict with fit=True
SeqFit(max_calls) ==
    /\ ens_calls < max_calls
    /\ \E overwrite \in BOOLEAN, dry_run \in BOOLEAN, save_results \in BOOLEAN :
          \E r \in {Seq_fit_transform_predict(ens, ens_files, ens_data,
                        overwrite, TRUE, dry_run, save_results)} :
              SeqOutcome("fit_transform_predict", r)

\* SequentialEnsemble.transform_predict
SeqTransform(max_calls) ==
    /\ ens_calls < max_calls
    /\ \E overwrite \in BOOLEAN, dry_run \in BOOLEAN, save_results \in BOOLEAN :
          \E r \in {Seq_fit_transform_predict(ens, ens_files, ens_data,
                        overwrite, FALSE, dry_run, save_results)} :
              SeqOutcome("transform_predict", r)

SeqFitTransformPredict == SeqFit(MaxCalls)

SeqTransformPredict == SeqTransform(MaxCalls)

\* a new process constructs the ensemble again on the same store
SeqConstruct ==
    /\ ens_call # SeqConstructed
    /\ ens' = Seq_init(ens.method_hyperparameter_list, ens_files)
    /\ ens_call' = SeqConstructed
    /\ UNCHANGED <<ens_data, ens_files, ens_calls, preVars, thrVars, spcVars, concVars, funVars>>

NextSeq == SeqFitTransformPredict \/ SeqTransformPredict \/ SeqConstruct

SpecSeq == InitSeq /\ [][NextSeq]_vars

(***************************************************************************)
(* Claims about the SequentialEnsemble (SpecSeq).                          *)
(***************************************************************************)
\* a call that returned after running Seg and AD
SeqRouted ==
    /\ ens_call.op \in {"fit_transform_predict", "transform_predict"}
    /\ ~ens_call.raised
    /\ ~ens_call.reloaded

Seg == ens.segmentation_method

\* segment j of station k is [SegmentBegin, SegmentEnd)
SegmentEnd(k, j) == Seg.breakpoints_per_station[k][j]

SegmentBegin(k, j) == IF j = 1 THEN 0 ELSE Seg.breakpoints_per_station[k][j - 1]

\* Seg's threshold rule on the mean of segment j of station k
SegmentFlagged(k, j) ==
    IF Seg.thr.threshold_optimization_method = "SingleThreshold"
    THEN RLe(Seg.thr.optimal_threshold, RAbs(Seg.segment_means_per_station[k][j]))
    ELSE \/ RLt(Seg.segment_means_per_station[k][j], Seg.thr.optimal_negative_threshold)
         \/ RLe(Seg.thr.optimal_positive_threshold, Seg.segment_means_per_station[k][j])

\* entry s of AD's batch is segment j of station k
HandedAs(k, j, s) ==
    ens_call.segments[s] = <<k, SegmentBegin(k, j), SegmentEnd(k, j)>>

\* AD is called on a sample of segment j of station k
SeenByAD(k, j) ==
    \E s \in DOMAIN ens_call.segments :
        /\ ens_call.segments[s][1] = k
        /\ ens_call.segments[s][2] < SegmentEnd(k, j)
        /\ SegmentBegin(k, j) < ens_call.segments[s][3]

\* on the segment the final prediction and AD score are AD's output s
TakenFromAD(k, j, s) ==
    /\ Len(ens_call.anomaly_detector.y_prediction_dfs[s]) =
           SegmentEnd(k, j) - SegmentBegin(k, j)
    /\ \A i \in (SegmentBegin(k, j) + 1)..SegmentEnd(k, j) :
          /\ ens_call.predictions[k][i] =
                 ens_call.anomaly_detector.y_prediction_dfs[s][i - SegmentBegin(k, j)]
          /\ ens_call.scores[k][i][2] =
                 ens_call.anomaly_detector.y_scores_dfs[s][i - SegmentBegin(k, j)]

\* on the segment the final prediction is Seg's own
KeptFromSeg(k, j) ==
    \A i \in (SegmentBegin(k, j) + 1)..SegmentEnd(k, j) :
        ens_call.predictions[k][i] = ens_call.segmenter.y_prediction_dfs[k][i]

\* C7: for every station and every segment of Seg's breakpoints: if Seg's
\* threshold rule on the segment mean is false the segment is handed to AD
\* and the final prediction and AD score on it are AD's output for it; else
\* the final prediction on it is Seg's own and AD never sees it.
C7_SequentialRouting ==
    SeqRouted =>
        \A k \in DOMAIN ens_data.X_dfs :
            \A j \in DOMAIN Seg.breakpoints_per_station[k] :
                IF SegmentFlagged(k, j)
                THEN KeptFromSeg(k, j) /\ ~SeenByAD(k, j)
                ELSE \E s \in DOMAIN ens_call.segments :
                        HandedAs(k, j, s) /\ TakenFromAD(k, j, s)

\* a station with a segment Seg flags and keeps, and a segment that goes to
\* AD, where AD's prediction differs from Seg's own
C7_Witness ==
    /\ SeqRouted
    /\ \E k \in DOMAIN ens_data.X_dfs : \E j1, j2 \in DOMAIN Seg.breakpoints_per_station[k] :
          /\ SegmentFlagged(k, j1) /\ KeptFromSeg(k, j1)
          /\ ~SegmentFlagged(k, j2)
          /\ Seg.segment_means_per_station[k][j1] # Seg.segment_means_per_station[k][j2]
          /\ \E i \in (SegmentBegin(k, j2) + 1)..SegmentEnd(k, j2) :
                ens_call.predictions[k][i] # ens_call.segmenter.y_prediction_dfs[k][i]

\* Seg's own prediction is 0 on every sample of segment j of station k
SegPredictsZero(k, j) ==
    \A i \in (SegmentBegin(k, j) + 1)..SegmentEnd(k, j) :
        ens_call.segmenter.y_prediction_dfs[k][i] = 0

\* C25: the routing decision agrees with Seg's own prediction: a segment is
\* handed to AD if and only if Seg's per-sample prediction on that segment
\* is 0, so every sample whose final prediction is kept from Seg is
\* predicted 1, for every reference value that Seg subtracts from the
\* segment mean to form its score.
C25_Original ==
    SeqRouted =>
        \A k \in DOMAIN ens_data.X_dfs :
            \A j \in DOMAIN Seg.breakpoints_per_station[k] :
                /\ SeenByAD(k, j) <=> SegPredictsZero(k, j)
                /\ ~SeenByAD(k, j) =>
                      \A i \in (SegmentBegin(k, j) + 1)..SegmentEnd(k, j) :
                          ens_call.predictions[k][i] = 1

\* the same with the single-threshold rule
C7_WitnessSingle ==
    /\ C7_Witness
    /\ ens.threshold_function = "single_threshold_function"

\* a call that reloaded the ensemble's pickled results
C7_WitnessReloaded ==
    /\ ens_call.op \in {"fit_transform_predict", "transform_predict"}
    /\ ~ens_call.raised
    /\ ens_call.reloaded



(***************************************************************************)
(* The SequentialEnsemble called on one store with batches that change     *)
(* between runs (SpecBkp): the pickled breakpoints, scores and ensemble of *)
(* an earlier run meet the stations of a later one.                        *)
(***************************************************************************)
MaxBkpCalls == 3

\* stations of 2 or 3 samples with a step at the last sample
BkpBatches ==
    UNION {
        {[X_dfs |-> <<[i \in 1..n |-> IF i < n THEN RInt(0) ELSE RInt(1)]>>,
          y_dfs |-> <<y>>,
          lf |-> BatchLabelFilters(<<y>>, EngineCutoffs), cuts |-> <<cuts>>] :
            y \in {[i \in 1..n |-> 0], [i \in 1..n |-> IF i < n THEN 0 ELSE 1]},
            cuts \in {{}, {n - 1}}}
        : n \in 2..MaxSamples}

BkpHyperparameters ==
    [threshold_method : {SingleThresholdMethod_init},
     seg_move_avg : {1},
     scaling : {TRUE},
     ad_move_avg : {1}]

InitBkp ==
    /\ PreIdle
    /\ ConcIdle
    /\ FunIdle
    /\ ThrIdle
    /\ SpcIdle
    /\ ens_data \in BkpBatches
    /\ ens_files = EmptySeqStore
    /\ \E hyperparameters \in BkpHyperparameters :
          ens = Seq_init(hyperparameters, EmptySeqStore)
    /\ ens_call = SeqConstructed
    /\ ens_calls = 0

BkpFitTransformPredict == SeqFit(MaxBkpCalls)

BkpTransformPredict == SeqTransform(MaxBkpCalls)

\* a new run: the ensemble is constructed again on the same store and is
\* given the batch of that run
BkpConstruct ==
    /\ ens_call # SeqConstructed
    /\ ens_calls < MaxBkpCalls
    /\ ens' = Seq_init(ens.method_hyperparameter_list, ens_files)
    /\ ens_call' = SeqConstructed
    /\ ens_data' \in BkpBatches
    /\ UNCHANGED <<ens_files, ens_calls, preVars, thrVars, spcVars, concVars, funVars>>

NextBkp == BkpFitTransformPredict \/ BkpTransformPredict \/ BkpConstruct

SpecBkp == InitBkp /\ [][NextBkp]_vars

(***************************************************************************)
(* Claims about breakpoints and station lengths (SpecBkp).                 *)
(***************************************************************************)
SeqCallReturned ==
    /\ ens_call.op \in {"fit_transform_predict", "transform_predict"}
    /\ ~ens_call.raised

\* the breakpoints the ensemble holds of station k lie within the station
BreakpointsWithin(k) ==
    k \in DOMAIN Seg.breakpoints_per_station =>
        \A j \in DOMAIN Seg.breakpoints_per_station[k] :
            Seg.breakpoints_per_station[k][j] <= Len(ens_data.X_dfs[k])

\* every segment handed to AD lies within its station
SegmentsWithin ==
    \A s \in DOMAIN ens_call.segments :
        /\ 0 <= ens_call.segments[s][2]
        /\ ens_call.segments[s][2] <= ens_call.segments[s][3]
        /\ ens_call.segments[s][3] <= Len(ens_data.X_dfs[ens_call.segments[s][1]])

\* C18: every segment handed to AD satisfies 0 <= begin <= end <= station
\* length, and a call in which a breakpoint of a station (freshly computed
\* or reloaded from cache) exceeds the station's length ends with an error
\* and returns no predictions.
C18_Original ==
    SeqCallReturned =>
        /\ SegmentsWithin
        /\ \A k \in DOMAIN ens_data.X_dfs : BreakpointsWithin(k)

(***************************************************************************)
(* methods.py: the pickles of BinarySegmentation engines.  Engines that    *)
(* differ in move_avg only are constructed on one store (SpecSeg); beta,   *)
(* penalty and params are the defaults in every engine.                    *)
(***************************************************************************)
MaxSegCalls == 3

\* BinarySegmentation.get_model_string
BS_get_model_string(self) ==
    [quantiles |-> self.quantiles, scaling |-> self.scaling,
     reference_point |-> self.reference_point, move_avg |-> self.move_avg]

\* BinarySegmentationBreakpointCalculator.get_breakpoints_string
BS_get_breakpoints_string(self) ==
    [quantiles |-> self.quantiles, scaling |-> self.scaling]

\* sha256(string).hexdigest(): equal for equal strings only
sha256(string) == <<"sha256", string>>

BS_get_hyperparameter_hash(self) == sha256(BS_get_model_string(self))

BS_get_breakpoints_hash(self) == sha256(BS_get_breakpoints_string(self))

SegEngine(move_avg) == BS_fresh(SingleThresholdMethod_init, move_avg, TRUE, EngineCutoffs)

SegEngines == {SegEngine(move_avg) : move_avg \in 1..MaxSegWindow}

EmptySegStore ==
    [scores |-> [h \in {BS_get_hyperparameter_hash(e) : e \in SegEngines} |-> NoFile],
     predictions |-> [h \in {BS_get_hyperparameter_hash(e) : e \in SegEngines} |-> NoFile],
     model |-> [h \in {BS_get_hyperparameter_hash(e) : e \in SegEngines} |-> NoFile],
     breakpoints |-> [h \in {BS_get_breakpoints_hash(e) : e \in SegEngines} |-> NoFile],
     segment_means |-> [h \in {BS_get_breakpoints_hash(e) : e \in SegEngines} |-> NoFile]]

\* the pickles at the paths fit_transform_predict builds for this engine
SegFilesAt(store, self) ==
    [scores |-> store.scores[BS_get_hyperparameter_hash(self)],
     predictions |-> store.predictions[BS_get_hyperparameter_hash(self)],
     model |-> store.model[BS_get_hyperparameter_hash(self)],
     breakpoints |-> store.breakpoints[BS_get_breakpoints_hash(self)],
     segment_means |-> store.segment_means[BS_get_breakpoints_hash(self)]]

SegStoreWith(store, self, fs) ==
    [scores |-> [store.scores EXCEPT ![BS_get_hyperparameter_hash(self)] = fs.scores],
     predictions |->
         [store.predictions EXCEPT ![BS_get_hyperparameter_hash(self)] = fs.predictions],
     model |-> [store.model EXCEPT ![BS_get_hyperparameter_hash(self)] = fs.model],
     breakpoints |->
         [store.breakpoints EXCEPT ![BS_get_breakpoints_hash(self)] = fs.breakpoints],
     segment_means |->
         [store.segment_means EXCEPT ![BS_get_breakpoints_hash(self)] = fs.segment_means]]

\* one station of MaxSamples samples
SegBatches == {b \in SeqBatches : Len(b.X_dfs[1]) = MaxSamples}

SegConstructed == [op |-> "__init__", raised |-> FALSE,
                   y_scores_dfs |-> <<>>, y_prediction_dfs |-> <<>>]

InitSeg ==
    /\ PreIdle
    /\ ConcIdle
    /\ FunIdle
    /\ ThrIdle
    /\ SpcIdle
    /\ ens_data \in SegBatches
    /\ ens_files = EmptySegStore
    /\ \E move_avg \in 1..MaxSegWindow :
          ens = BS_init(SingleThresholdMethod_init, move_avg, TRUE, EngineCutoffs,
                        SegFilesAt(EmptySegStore, SegEngine(move_avg)))
    /\ ens_call = SegConstructed
    /\ ens_calls = 0

SegOutcome(op, r) ==
    /\ ens' = r.self
    /\ ens_files' = SegStoreWith(ens_files, ens, r.files)
    /\ ens_call' = [op |-> op, raised |-> r.raised,
                    y_scores_dfs |-> r.y_scores_dfs,
                    y_prediction_dfs |-> r.y_prediction_dfs]
    /\ ens_calls' = ens_calls + 1
    /\ UNCHANGED <<ens_data, preVars, thrVars, spcVars, concVars, funVars>>

\* BinarySegmentation.fit_transform_predict with fit=True
SegFitTransformPredict ==
    /\ ens_calls < MaxSegCalls
    /\ \E overwrite \in BOOLEAN, dry_run \in BOOLEAN :
          \E r \in {BS_fit_transform_predict(ens, SegFilesAt(ens_files, ens),
                        ens_data.cuts, ens_data.X_dfs, ens_data.y_dfs, ens_data.lf,
                        overwrite, TRUE, dry_run)} :
              SegOutcome("fit_transform_predict", r)

\* BinarySegmentation.transform_predict
SegTransformPredict ==
    /\ ens_calls < MaxSegCalls
    /\ \E overwrite \in BOOLEAN :
          \E r \in {BS_fit_transform_predict(ens, SegFilesAt(ens_files, ens),
                        ens_data.cuts, ens_data.X_dfs, ens_data.y_dfs, ens_data.lf,
                        overwrite, FALSE, FALSE)} :
              SegOutcome("transform_predict", r)

\* a new process constructs an engine of one of the windows on the store
SegConstruct ==
    /\ ens_call # SegConstructed
    /\ \E move_avg \in 1..MaxSegWindow :
          ens' = BS_init(SingleThresholdMethod_init, move_avg, TRUE, EngineCutoffs,
                         SegFilesAt(ens_files, SegEngine(move_avg)))
    /\ ens_call' = SegConstructed
    /\ UNCHANGED <<ens_data, ens_files, ens_calls, preVars, thrVars, spcVars, concVars, funVars>>

NextSeg == SegFitTransformPredict \/ SegTransformPredict \/ SegConstruct

SpecSeg == InitSeg /\ [][NextSeg]_vars

(***************************************************************************)
(* Claims about the pickles of BinarySegmentation (SpecSeg).               *)
(***************************************************************************)
SegReturned ==
    ens_call.op \in {"fit_transform_predict", "transform_predict"} /\ ~ens_call.raised

\* what the engine's own hyperparameters give for station k
OwnSignal(k) == BS_signal(ens, ens_data.X_dfs[k])

OwnBreakpoints(k) == get_breakpoints(OwnSignal(k), ens_data.cuts[k])

OwnScored(k) == data_to_score(OwnSignal(k), OwnBreakpoints(k))

\* C13: the hash in a pickle's path uniquely keys the pickle: engines that
\* differ in a hyperparameter that influences the scores, the breakpoints
\* or the segment means use different paths for them, so what a call
\* reloads is what the engine's own hyperparameters produce.
C13_Original ==
    SegReturned =>
        \A k \in DOMAIN ens_data.X_dfs :
            /\ ens_call.y_scores_dfs[k] = OwnScored(k).y_score
            /\ ens.breakpoints_per_station[k] = OwnBreakpoints(k)
            /\ ens.segment_means_per_station[k] = OwnScored(k).segment_means


(***************************************************************************)
(* methods.py: the worker pool of Basic_ARIMA_model and                    *)
(* Iterative_ARIMA_model (SARIMAX_model submits and collects as            *)
(* Basic_ARIMA_model does).  The statsmodels fit of a station is a         *)
(* function of the station's frame; a frame and a result are terms.        *)
(***************************************************************************)
MaxStations == 3

\* ProcessPoolExecutor(max_workers=32), scaled to the batch
MaxWorkers == 2

MaxIter == 2

PoolFrames == {"station_a", "station_b"}

\* process_dataframe / process_dataframe_final: (scores, fitted values)
process_dataframe(name, X_df) ==
    [scores |-> <<name, "scores", X_df>>, vals |-> <<name, "fittedvalues", X_df>>]

\* std_dev = pd.concat(y_scores_dfs).std(); self.optimal_threshold = 2.5*std_dev
Iterative_threshold(y_scores_dfs) == <<"2.5*std", Range(y_scores_dfs)>>

\* replace_outliers(X_df, y_val, new_pred) on the prediction of the station
replace_outliers(X_df, y_val, score, optimal_threshold) ==
    <<"replace_outliers", X_df, y_val, <<"predict", score, optimal_threshold>>>>

\* X_dfs = list(executor.map(self.replace_outliers, X_dfs, y_vals, new_predictions))
Iterative_next_inputs(X_dfs, y_scores_dfs, y_vals) ==
    Array([i \in 1..MinNat({Len(X_dfs), Len(y_scores_dfs), Len(y_vals)}) |->
        replace_outliers(X_dfs[i], y_vals[i], y_scores_dfs[i],
                         Iterative_threshold(y_scores_dfs))])

\* the function the round's tasks run
TaskName(engine, round, max_iter) ==
    IF engine = "Iterative_ARIMA" /\ round = max_iter
    THEN "process_dataframe_final" ELSE "process_dataframe"

\* the engine run on one worker, station after station
RECURSIVE SequentialRun(_, _, _, _)
SequentialRun(engine, X_dfs, round, max_iter) ==
    IF round = max_iter
    THEN Array([i \in DOMAIN X_dfs |->
             process_dataframe(TaskName(engine, round, max_iter), X_dfs[i])])
    ELSE SequentialRun(engine,
             Iterative_next_inputs(X_dfs,
                 Array([i \in DOMAIN X_dfs |->
                     process_dataframe(TaskName(engine, round, max_iter), X_dfs[i]).scores]),
                 Array([i \in DOMAIN X_dfs |->
                     process_dataframe(TaskName(engine, round, max_iter), X_dfs[i]).vals])),
             round + 1, max_iter)

Queued == [state |-> "queued", result |-> <<>>]

\* for future in futures: the future whose result() the engine waits for
NextFutureCompleted(p) ==
    IF \E i \in DOMAIN p.futures : p.futures[i].state = "done" /\ i \notin Range(p.collected)
    THEN MaxNat({i \in DOMAIN p.futures :
                    p.futures[i].state = "done" /\ i \notin Range(p.collected)})
    ELSE Len(p.collected) + 1

NextFuture(p) == Len(p.collected) + 1

InitPool ==
    /\ FunIdle
    /\ PreIdle
    /\ ThrIdle
    /\ SpcIdle
    /\ EnsIdle
    /\ disk = <<>> /\ procs = <<>>
    /\ \E X_dfs \in SeqsUpTo(PoolFrames, MaxStations) \ {<<>>},
          config \in ({"basic_ARIMA"} \X {1}) \cup ({"Iterative_ARIMA"} \X (1..MaxIter)) :
          pool = [engine |-> config[1], max_iter |-> config[2],
                  batch |-> X_dfs, X_dfs |-> X_dfs, round |-> 1,
                  futures |-> <<>>, collected |-> <<>>, finished |-> <<>>,
                  y_scores_dfs |-> <<>>, y_vals |-> <<>>, pc |-> "submit"]

\* futures = [executor.submit(...) for X_df in X_dfs]
PoolSubmit ==
    /\ pool # <<>> /\ pool.pc = "submit"
    /\ pool' = [pool EXCEPT !.futures = [i \in DOMAIN pool.X_dfs |-> Queued],
                            !.collected = <<>>, !.finished = <<>>,
                            !.y_scores_dfs = <<>>, !.y_vals = <<>>,
                            !.pc = "collect"]
    /\ UNCHANGED <<disk, procs, preVars, thrVars, spcVars, ensVars, funVars>>

\* a free worker takes the oldest queued task
WorkerStart ==
    /\ pool # <<>>
    /\ \E i \in DOMAIN pool.futures :
          /\ pool.futures[i].state = "queued"
          /\ \A j \in 1..(i - 1) : pool.futures[j].state # "queued"
          /\ Cardinality({j \in DOMAIN pool.futures :
                             pool.futures[j].state = "running"}) < MaxWorkers
          /\ pool' = [pool EXCEPT !.futures[i].state = "running"]
    /\ UNCHANGED <<disk, procs, preVars, thrVars, spcVars, ensVars, funVars>>

\* a worker returns the result of its station, in any order
WorkerFinish ==
    /\ pool # <<>>
    /\ \E i \in DOMAIN pool.futures :
          /\ pool.futures[i].state = "running"
          /\ pool' = [pool EXCEPT
                !.futures[i] =
                    [state |-> "done",
                     result |-> process_dataframe(
                         TaskName(pool.engine, pool.round, pool.max_iter),
                         pool.X_dfs[i])],
                !.finished = Append(pool.finished, i)]
    /\ UNCHANGED <<disk, procs, preVars, thrVars, spcVars, ensVars, funVars>>

\* the fit of a station raises in its worker
WorkerRaise ==
    /\ pool # <<>>
    /\ \E i \in DOMAIN pool.futures :
          /\ pool.futures[i].state = "running"
          /\ pool' = [pool EXCEPT !.futures[i].state = "raised"]
    /\ UNCHANGED <<disk, procs, preVars, thrVars, spcVars, ensVars, funVars>>

\* result = future.result(): blocks until the future is done, appends its
\* result or raises its exception
PoolCollect ==
    /\ pool # <<>> /\ pool.pc = "collect"
    /\ NextFuture(pool) \in DOMAIN pool.futures
    /\ pool.futures[NextFuture(pool)].state \in {"done", "raised"}
    /\ pool' =
          IF pool.futures[NextFuture(pool)].state = "raised"
          THEN [pool EXCEPT !.pc = "raised"]
          ELSE [pool EXCEPT
                   !.collected = Append(pool.collected, NextFuture(pool)),
                   !.y_scores_dfs = Append(pool.y_scores_dfs,
                                        pool.futures[NextFuture(pool)].result.scores),
                   !.y_vals = Append(pool.y_vals,
                                  pool.futures[NextFuture(pool)].result.vals)]
    /\ UNCHANGED <<disk, procs, preVars, thrVars, spcVars, ensVars, funVars>>

\* every future is collected: the engine goes on with the lists, or (in the
\* loop of Iterative_ARIMA_model) replaces the outliers and submits again
PoolCollected ==
    /\ pool # <<>> /\ pool.pc = "collect"
    /\ Len(pool.collected) = Len(pool.futures)
    /\ pool' =
          IF pool.round = pool.max_iter
          THEN [pool EXCEPT !.pc = "returned"]
          ELSE [pool EXCEPT
                   !.X_dfs = Iterative_next_inputs(pool.X_dfs, pool.y_scores_dfs,
                                                   pool.y_vals),
                   !.round = pool.round + 1,
                   !.pc = "submit"]
    /\ UNCHANGED <<disk, procs, preVars, thrVars, spcVars, ensVars, funVars>>

NextPool ==
    PoolSubmit \/ WorkerStart \/ WorkerFinish \/ WorkerRaise \/ PoolCollect \/ PoolCollected

SpecPool == InitPool /\ [][NextPool]_vars

(***************************************************************************)
(* Claims about the worker pool (SpecPool).                                *)
(***************************************************************************)
\* C15: the i-th score frame and the i-th fitted-value array the engine
\* holds when the pool is done are those of the i-th station of the batch,
\* in every order in which the workers complete; indices into X_dfs (the
\* segment origins of SequentialEnsemble) address the station they name.
C15_ResultOrder ==
    pool.pc = "returned" =>
        /\ Len(pool.y_scores_dfs) = Len(pool.batch)
        /\ Len(pool.y_vals) = Len(pool.batch)
        /\ \A i \in DOMAIN pool.batch :
              /\ pool.y_scores_dfs[i] =
                     SequentialRun(pool.engine, pool.batch, 1, pool.max_iter)[i].scores
              /\ pool.y_vals[i] =
                     SequentialRun(pool.engine, pool.batch, 1, pool.max_iter)[i].vals

\* a later station of other data finished before an earlier one
C15_Witness ==
    /\ pool.pc = "returned"
    /\ \E a, b \in DOMAIN pool.finished :
          /\ a < b
          /\ pool.finished[a] > pool.finished[b]
          /\ pool.batch[pool.finished[a]] # pool.batch[pool.finished[b]]

\* the same in a run of Iterative_ARIMA_model with a replace_outliers round
C15_WitnessIterative ==
    /\ C15_Witness
    /\ pool.engine = "Iterative_ARIMA" /\ pool.round > 1


(***************************************************************************)
(* methods.py: SaveableModel.save_model, load_model and __init__ run by    *)
(* processes that share one model path (SpecDisk).  pickle.dump reaches    *)
(* the file in PickleChunks writes; every process holds its own state and  *)
(* its own file position.                                                  *)
(***************************************************************************)
MaxProcs == 2

PickleChunks == 2

Procs == 1..MaxProcs

\* the bytes of pickle.dump(self.__dict__) for the state of process p
Pickle(p) == [c \in 1..PickleChunks |-> <<"pickle", p, c>>]

NoRead == <<"nothing read">>

\* a write of chunk at position pos of a file opened 'wb'; a gap left by
\* another process' truncation reads as zero bytes
WriteAt(bytes, pos, chunk) ==
    [c \in 1..Max2(Len(bytes), pos + 1) |->
        IF c = pos + 1 THEN chunk
        ELSE IF c <= Len(bytes) THEN bytes[c] ELSE <<"zero bytes">>]

InitDisk ==
    /\ FunIdle
    /\ PreIdle
    /\ ThrIdle
    /\ SpcIdle
    /\ EnsIdle
    /\ pool = <<>>
    /\ disk = [exists |-> FALSE, bytes |-> <<>>]
    /\ procs \in [Procs ->
          {[op |-> "save_model", pc |-> "save", pos |-> 0, read |-> NoRead],
           [op |-> "load_model", pc |-> "load", pos |-> 0, read |-> NoRead],
           [op |-> "__init__", pc |-> "check", pos |-> 0, read |-> NoRead]}]

\* save_model: f = open(full_path, 'wb') creates or truncates the file
SaveOpen ==
    /\ disk # <<>>
    /\ \E p \in Procs :
          /\ procs[p].pc = "save"
          /\ disk' = [exists |-> TRUE, bytes |-> <<>>]
          /\ procs' = [procs EXCEPT ![p].pc = "dump", ![p].pos = 0]
    /\ UNCHANGED <<pool, preVars, thrVars, spcVars, ensVars, funVars>>

\* save_model: pickle.dump(self.__dict__, f, 2), one write
SaveWrite ==
    /\ disk # <<>>
    /\ \E p \in Procs :
          /\ procs[p].pc = "dump"
          /\ procs[p].pos < PickleChunks
          /\ disk' = [disk EXCEPT !.bytes =
                         WriteAt(disk.bytes, procs[p].pos, Pickle(p)[procs[p].pos + 1])]
          /\ procs' = [procs EXCEPT ![p].pos = procs[p].pos + 1]
    /\ UNCHANGED <<pool, preVars, thrVars, spcVars, ensVars, funVars>>

\* save_model: f.close()
SaveClose ==
    /\ disk # <<>>
    /\ \E p \in Procs :
          /\ procs[p].pc = "dump"
          /\ procs[p].pos = PickleChunks
          /\ procs' = [procs EXCEPT ![p].pc = "done"]
    /\ UNCHANGED <<disk, pool, preVars, thrVars, spcVars, ensVars, funVars>>

\* __init__: if os.path.exists(full_path): self.load_model()
InitExists ==
    /\ disk # <<>>
    /\ \E p \in Procs :
          /\ procs[p].pc = "check"
          /\ procs' = [procs EXCEPT ![p].pc = IF disk.exists THEN "load" ELSE "done"]
    /\ UNCHANGED <<disk, pool, preVars, thrVars, spcVars, ensVars, funVars>>

\* load_model: f = open(full_path, 'rb') raises when there is no file
LoadOpen ==
    /\ disk # <<>>
    /\ \E p \in Procs :
          /\ procs[p].pc = "load"
          /\ procs' = [procs EXCEPT ![p].pc = IF disk.exists THEN "unpickle" ELSE "raised"]
    /\ UNCHANGED <<disk, pool, preVars, thrVars, spcVars, ensVars, funVars>>

\* load_model: tmp_dict = pickle.load(f) reads what the file holds now
LoadRead ==
    /\ disk # <<>>
    /\ \E p \in Procs :
          /\ procs[p].pc = "unpickle"
          /\ procs' = [procs EXCEPT
                ![p].read = disk.bytes,
                ![p].pc = IF disk.bytes \in {Pickle(q) : q \in Procs}
                          THEN "done" ELSE "raised"]
    /\ UNCHANGED <<disk, pool, preVars, thrVars, spcVars, ensVars, funVars>>

NextDisk == SaveOpen \/ SaveWrite \/ SaveClose \/ InitExists \/ LoadOpen \/ LoadRead

SpecDisk == InitDisk /\ [][NextDisk]_vars

(***************************************************************************)
(* Claims about concurrent saves and loads (SpecDisk).                     *)
(***************************************************************************)
\* C16: under every interleaving of a save_model with a load_model, a
\* construction-time existence check or a second save_model on the same
\* path, a process that reads the file reads one completely written state,
\* never a partially written file.
C16_Original ==
    \A p \in Procs :
        procs[p].read # NoRead => procs[p].read \in {Pickle(q) : q \in Procs}


(***************************************************************************)
(* preprocess.py: find_subsequent_duplicates and the missing column of     *)
(* preprocess_data, called on one station (SpecStale).  A measurement is   *)
(* [null |-> whether it is NaN, v |-> its value].                          *)
(***************************************************************************)
MaxStaleLen == 3

MaxSubsequentNr == 3

Measurements == [null : {FALSE}, v : {0, 1}] \cup {[null |-> TRUE, v |-> 0]}

\* y[i] == y[i - 1]: NaN equals nothing
PyEq(a, b) == ~a.null /\ ~b.null /\ a.v = b.v

\* the loop of find_subsequent_duplicates from Python index i on (the model
\* index of y[i] is i + 1)
RECURSIVE SubsequentLoop(_, _, _, _, _)
SubsequentLoop(y, subsequent_duplicates, i, count, subsequent_filter) ==
    IF i >= Len(y) THEN subsequent_filter
    ELSE LET c == IF PyEq(y[i + 1], y[i]) THEN count + 1 ELSE 1
         IN  SubsequentLoop(y, subsequent_duplicates, i + 1, c,
                 IF c >= subsequent_duplicates
                 THEN [j \in DOMAIN subsequent_filter |->
                          IF i - c + 1 <= j - 1 /\ j - 1 <= i
                          THEN 1 ELSE subsequent_filter[j]]
                 ELSE subsequent_filter)

find_subsequent_duplicates(y, subsequent_duplicates) ==
    IF Len(y) < 2 \/ subsequent_duplicates < 1
    THEN [j \in DOMAIN y |-> 0]
    ELSE SubsequentLoop(y, subsequent_duplicates, 1, 1, [j \in DOMAIN y |-> 0])

\* preprocess_data, the missing column: 0 unless supplied, 1 where
\* BU_original or S_original is null, then or-ed with the filter of S
preprocess_data_missing(X_df, subsequent_nr) ==
    np_logical_or(
        [j \in DOMAIN X_df.S_original |->
            IF X_df.BU_original[j].null \/ X_df.S_original[j].null THEN 1
            ELSE IF X_df.missing = <<>> THEN 0 ELSE X_df.missing[j]],
        find_subsequent_duplicates(X_df.S_original, subsequent_nr))

\* the frames of one station; missing = <<>> when no such column is supplied
StaleFrames ==
    UNION {
        {[S_original |-> S, BU_original |-> BU, missing |-> m] :
            S \in [1..n -> Measurements],
            BU \in [1..n -> {[null |-> FALSE, v |-> 0], [null |-> TRUE, v |-> 0]}],
            m \in {<<>>} \cup [1..n -> {0, 1}]}
        : n \in 1..MaxStaleLen}

InitStale ==
    /\ PreIdle
    /\ ThrIdle
    /\ SpcIdle
    /\ EnsIdle
    /\ ConcIdle
    /\ \E X_df \in StaleFrames, subsequent_nr \in 1..MaxSubsequentNr :
          call = [op |-> "input", X_df |-> X_df, subsequent_nr |-> subsequent_nr,
                  subsequent_filter |-> <<>>, missing |-> <<>>]

\* preprocess_data on the station
PreprocessData ==
    /\ call # <<>>
    /\ call.op = "input"
    /\ call' = [call EXCEPT
          !.op = "preprocess_data",
          !.subsequent_filter =
              find_subsequent_duplicates(call.X_df.S_original, call.subsequent_nr),
          !.missing = preprocess_data_missing(call.X_df, call.subsequent_nr)]
    /\ UNCHANGED <<preVars, thrVars, spcVars, ensVars, concVars>>

NextStale == PreprocessData

SpecStale == InitStale /\ [][NextStale]_vars

(***************************************************************************)
(* Claims about stale-run masking (SpecStale).                             *)
(***************************************************************************)
\* index i lies in a run of at least subsequent_nr consecutive equal values
InStaleRun(y, i, subsequent_nr) ==
    \E a \in 1..i, b \in i..Len(y) :
        /\ b - a + 1 >= subsequent_nr
        /\ \A k \in a..(b - 1) : PyEq(y[k], y[k + 1])

\* the filter marks exactly the indices of the runs
RunsMarked ==
    \A i \in DOMAIN call.subsequent_filter :
        call.subsequent_filter[i] = 1 <=>
            InStaleRun(call.X_df.S_original, i, call.subsequent_nr)

\* missing is set on exactly the runs, the nulls and the supplied flags
MissingSet ==
    \A i \in DOMAIN call.missing :
        call.missing[i] = 1 <=>
            \/ InStaleRun(call.X_df.S_original, i, call.subsequent_nr)
            \/ call.X_df.S_original[i].null
            \/ call.X_df.BU_original[i].null
            \/ (call.X_df.missing # <<>> /\ call.X_df.missing[i] = 1)

\* C21: for every sequence and every subsequent_nr >= 1,
\* find_subsequent_duplicates marks index i with 1 if and only if i lies
\* inside a maximal run of consecutive equal values of length >=
\* subsequent_nr, and preprocessing sets missing = 1 on exactly those
\* indices, the indices where S_original or BU_original is null and the
\* indices already flagged in a supplied missing column.
C21_Original ==
    (call # <<>> /\ call.op = "preprocess_data") => (RunsMarked /\ MissingSet)


(***************************************************************************)
(* methods.py: _data_to_score called on one signal with a breakpoint list  *)
(* as rpt.Binseg returns it: strictly increasing, ending at len(signal)    *)
(* (SpecScore).                                                            *)
(***************************************************************************)
MaxScoreLen == 4

ScoreValues == {RInt(0), RInt(1), RInt(4)}

ReferencePointValues == {RInt(0), RInt(1), Rat(1, 2)}

InitScore ==
    /\ PreIdle
    /\ ThrIdle
    /\ SpcIdle
    /\ EnsIdle
    /\ ConcIdle
    /\ \E n \in 1..MaxScoreLen :
          \E signal \in [1..n -> ScoreValues], cuts \in SUBSET (1..(n - 1)),
             reference_point_value \in ReferencePointValues :
              call = [op |-> "input", signal |-> signal,
                      bkps |-> get_breakpoints(signal, cuts),
                      reference_point_value |-> reference_point_value,
                      y_score |-> <<>>, segment_means |-> <<>>]

\* y_score, segment_means = _data_to_score(signal, bkps, reference_point_value)
DataToScore ==
    /\ call # <<>>
    /\ call.op = "input"
    /\ \E r \in {data_to_score_njit(call.signal, call.bkps, call.reference_point_value)} :
          call' = [call EXCEPT !.op = "_data_to_score",
                               !.y_score = r.y_score,
                               !.segment_means = r.segment_means]
    /\ UNCHANGED <<preVars, thrVars, spcVars, ensVars, concVars>>

NextScore == DataToScore

SpecScore == InitScore /\ [][NextScore]_vars

(***************************************************************************)
(* Claims about binary-segmentation scoring (SpecScore).                   *)
(***************************************************************************)
Scored == call # <<>> /\ call.op = "_data_to_score"

\* the samples of segment j are those after BkpBefore(j) up to bkps[j]
BkpBefore(j) == IF j = 1 THEN 0 ELSE call.bkps[j - 1]

\* the mean of the samples of segment j
MeanOfSegment(j) ==
    RDiv(RSum(SubSeq(call.signal, BkpBefore(j) + 1, call.bkps[j])),
         RInt(call.bkps[j] - BkpBefore(j)))

MaxSignalLen == 3

InitSignal ==
    /\ PreIdle
    /\ ThrIdle
    /\ SpcIdle
    /\ EnsIdle
    /\ ConcIdle
    /\ \E n \in 1..MaxSignalLen :
          \E diff \in [1..n -> ScoreValues], scaling \in BOOLEAN,
             move_avg \in 1..MaxSegWindow :
              call = [op |-> "input",
                      self |-> BS_fresh(SingleThresholdMethod_init, move_avg, scaling,
                                        EngineCutoffs),
                      diff |-> diff, signal |-> <<>>]

\* the loop body "for X_df in X_dfs" of fit_transform_predict on one station
PrepareSignal ==
    /\ call # <<>>
    /\ call.op = "input"
    /\ call' = [call EXCEPT !.op = "signal", !.signal = BS_signal(call.self, call.diff)]
    /\ UNCHANGED <<preVars, thrVars, spcVars, ensVars, concVars>>

NextSignal == PrepareSignal

SpecSignal == InitSignal /\ [][NextSignal]_vars

(***************************************************************************)
(* Claims about the input preparation (SpecSignal).                        *)
(***************************************************************************)
\* C23: the centered moving average with window move_avg is applied to the
\* signal before change-point detection whether or not scaling is enabled;
\* scaling only decides whether the robust scaler runs before it.
C23_Original ==
    (call # <<>> /\ call.op = "signal") =>
        call.signal =
            moving_average(
                IF call.self.scaling
                THEN RobustScaler_fit_transform(call.diff, call.self.quantiles)
                ELSE call.diff,
                call.self.move_avg)


(***************************************************************************)
(* methods.py: the scores of IsolationForest engines that differ only in   *)
(* scaling, fit on one batch (SpecForest).  The forest of sklearn is kept  *)
(* abstract: a fitted forest is named by the data it was fit on, and its   *)
(* decision function at a point by the forest and the point.               *)
(***************************************************************************)
MaxForestStations == 2

MaxForestLen == 3

\* self.model.fit(data)
IF_fit(data) == <<"IsolationForest", data>>

\* -self.model.decision_function(data) + 1, per sample
IF_scaled_score(model, data) ==
    [i \in DOMAIN data |-> <<"1 - decision_function", model, data[i]>>]

RECURSIVE np_concatenate(_)
np_concatenate(arrs) ==
    IF arrs = <<>> THEN <<>> ELSE Head(arrs) \o np_concatenate(Tail(arrs))

\* fit_transform_predict with fit=True, "if not self.forest_per_station and
\* fit": the forest fit on the flattened batch, scaled per station if
\* self.scaling
IF_fit_on_batch(self, X_dfs) ==
    IF self.scaling
    THEN IF_fit(np_concatenate(
             [k \in DOMAIN X_dfs |-> RobustScaler_fit_transform(X_dfs[k], self.quantiles)]))
    ELSE IF_fit(np_concatenate(X_dfs))

\* get_IF_scores: the forest is fit on the station if forest_per_station;
\* the station is scored as it is if not self.scaling, else scaled
get_IF_scores(self, model, diff) ==
    IF_scaled_score(
        IF self.forest_per_station THEN IF_fit(diff) ELSE model,
        IF ~self.scaling THEN diff
        ELSE RobustScaler_fit_transform(diff, self.quantiles))

\* y_scores_dfs of fit_transform_predict with fit=True on an empty store
IF_scores(self, X_dfs) ==
    [k \in DOMAIN X_dfs |->
        get_IF_scores(self,
            IF ~self.forest_per_station THEN IF_fit_on_batch(self, X_dfs)
            ELSE <<"IsolationForest">>,
            X_dfs[k])]

\* IsolationForest.__init__
IF_init(forest_per_station, scaling) ==
    [score_calculation_method_name |-> "IsolationForest",
     forest_per_station |-> forest_per_station,
     scaling |-> scaling,
     quantiles |-> <<quantile_low, quantile_high>>]

ForestBatches ==
    UNION {[1..k -> UNION {[1..n -> ScoreValues] : n \in 1..MaxForestLen}]
           : k \in 1..MaxForestStations}

InitForest ==
    /\ PreIdle
    /\ ThrIdle
    /\ SpcIdle
    /\ EnsIdle
    /\ ConcIdle
    /\ \E X_dfs \in ForestBatches, forest_per_station \in BOOLEAN :
          call = [op |-> "input", X_dfs |-> X_dfs,
                  forest_per_station |-> forest_per_station,
                  y_scores_dfs |-> [scaling \in BOOLEAN |-> <<>>]]

\* the engine with this scaling is constructed and fit on the batch
ForestFitTransformPredict ==
    /\ call # <<>>
    /\ \E scaling \in BOOLEAN :
          /\ call.y_scores_dfs[scaling] = <<>>
          /\ call' = [call EXCEPT
                !.op = "fit_transform_predict",
                !.y_scores_dfs[scaling] =
                    IF_scores(IF_init(call.forest_per_station, scaling), call.X_dfs)]
    /\ UNCHANGED <<preVars, thrVars, spcVars, ensVars, concVars>>

NextForest == ForestFitTransformPredict

SpecForest == InitForest /\ [][NextForest]_vars

(***************************************************************************)
(* Claims about the scaling option of IsolationForest (SpecForest).        *)
(***************************************************************************)
\* C24: when forest_per_station is true the value of scaling has no effect:
\* two engines that differ only in scaling produce the same scores on the
\* same batch.
C24_Original ==
    (/\ call # <<>>
     /\ call.forest_per_station
     /\ \A scaling \in BOOLEAN : call.y_scores_dfs[scaling] # <<>>) =>
        call.y_scores_dfs[TRUE] = call.y_scores_dfs[FALSE]


(***************************************************************************)
(* A threshold optimiser called on one batch after another: every          *)
(* optimize_thresholds gets its own batch, the batch without stations      *)
(* among them, and every predict_from_scores_dfs its own scores.           *)
(* thr_batch holds the arguments of the last call.                         *)
(***************************************************************************)
MaxRefitSamples == 2

\* no station, or one station of 1..MaxRefitSamples samples, one bucket
RefitBatches ==
    {b \in Batches :
        /\ b.all_cutoffs = EngineCutoffs
        /\ \A k \in DOMAIN b.y_dfs : Len(b.y_dfs[k]) <= MaxRefitSamples}

\* the scores of one station passed to predict_from_scores_dfs
RefitScores ==
    UNION {{[y_dfs |-> <<>>, y_scores_dfs |-> <<sc>>, lf |-> <<>>,
             all_cutoffs |-> EngineCutoffs] : sc \in [1..n -> ThrScoreValues]}
           : n \in 1..MaxRefitSamples}

InitRefit ==
    /\ PreIdle
    /\ ConcIdle
    /\ FunIdle
    /\ SpcIdle
    /\ EnsIdle
    /\ thr_batch = [y_dfs |-> <<>>, y_scores_dfs |-> <<>>, lf |-> <<>>,
                    all_cutoffs |-> EngineCutoffs]
    /\ \/ single = SingleThresholdMethod_init /\ double = <<>>
       \/ single = <<>> /\ double = DoubleThresholdMethod_init
    /\ thr_call = [op |-> "__init__", raised |-> FALSE, used_cutoffs |-> <<>>]
    /\ thr_pred = <<>>

RefitSingle ==
    /\ single # <<>>
    /\ \E b \in RefitBatches :
          \E r \in {Single_optimize_thresholds(single, b.y_dfs, b.y_scores_dfs, b.lf,
                                               EngineCutoffs, FALSE, InterpLen)} :
              /\ single' = r.self
              /\ thr_batch' = b
              /\ thr_call' = [op |-> "optimize_thresholds", raised |-> r.raised,
                               used_cutoffs |-> EngineCutoffs]
    /\ thr_pred' = <<>>
    /\ UNCHANGED <<double, preVars, spcVars, ensVars, concVars, funVars>>

RefitDouble ==
    /\ double # <<>>
    /\ \E b \in RefitBatches :
          \E r \in {Double_optimize_thresholds(double, b.y_dfs, b.y_scores_dfs, b.lf,
                                               EngineCutoffs, FALSE, InterpLen)} :
              /\ double' = r.self
              /\ thr_batch' = b
              /\ thr_call' = [op |-> "optimize_thresholds", raised |-> r.raised,
                               used_cutoffs |-> EngineCutoffs]
    /\ thr_pred' = <<>>
    /\ UNCHANGED <<single, preVars, spcVars, ensVars, concVars, funVars>>

\* comparing scores without an optimal threshold attribute raises
\* AttributeError
RefitPredictSingle ==
    /\ single # <<>>
    /\ \E b \in RefitScores :
          /\ thr_batch' = b
          /\ IF single.optimal_threshold = <<>>
             THEN /\ thr_pred' = <<>>
                  /\ thr_call' = [op |-> "predict_from_scores_dfs", raised |-> TRUE,
                                   used_cutoffs |-> <<>>]
             ELSE /\ thr_pred' = Single_predict_from_scores_dfs(single, b.y_scores_dfs)
                  /\ thr_call' = [op |-> "predict_from_scores_dfs", raised |-> FALSE,
                                   used_cutoffs |-> <<>>]
    /\ UNCHANGED <<single, double, preVars, spcVars, ensVars, concVars, funVars>>

RefitPredictDouble ==
    /\ double # <<>>
    /\ \E b \in RefitScores :
          /\ thr_batch' = b
          /\ IF double.optimal_negative_threshold = <<>>
             THEN /\ thr_pred' = <<>>
                  /\ thr_call' = [op |-> "predict_from_scores_dfs", raised |-> TRUE,
                                   used_cutoffs |-> <<>>]
             ELSE /\ thr_pred' = Double_predict_from_scores_dfs(double, b.y_scores_dfs)
                  /\ thr_call' = [op |-> "predict_from_scores_dfs", raised |-> FALSE,
                                   used_cutoffs |-> <<>>]
    /\ UNCHANGED <<single, double, preVars, spcVars, ensVars, concVars, funVars>>

NextRefit == RefitSingle \/ RefitDouble \/ RefitPredictSingle \/ RefitPredictDouble

SpecRefit == InitRefit /\ [][NextRefit]_vars

\* the threshold state optimize_thresholds stores for an empty
\* label_filters_for_all_cutoffs
EmptyThresholdState ==
    \/ single # <<>> /\ single.optimal_threshold = RInf
    \/ double # <<>> /\ double.optimal_threshold = <<RNegInf, RInf>>

\* C29: optimize_thresholds with an empty label-filter list leaves the
\* threshold state at +inf (single) or (-inf, +inf) (double), and a
\* predict_from_scores_dfs in that state labels every finite score 0, for
\* both variants and whatever thresholds were held before.
C29_Original ==
    /\ (Optimized /\ thr_batch.lf = <<>>) => EmptyThresholdState
    /\ (thr_call.op = "predict_from_scores_dfs" /\ EmptyThresholdState) =>
           /\ ~thr_call.raised
           /\ \A k \in DOMAIN thr_pred : \A i \in DOMAIN thr_pred[k] : thr_pred[k][i] = 0

\* the single-threshold variant alone
C29_SingleOnly ==
    single # <<>> => C29_Original


(***************************************************************************)
(* The persisted files of one pipeline run and the calls that write them:  *)
(* preprocess_per_batch_and_write and the fit_transform_predict of a       *)
(* SequentialEnsemble of BinarySegmentation and Basic_ARIMA.  What a file  *)
(* holds is kept as <<n>>, n the number of the call that wrote it, so that *)
(* a rewrite shows; of an engine only whether it holds fitted thresholds   *)
(* is kept.  ens_files is the store, ens the engines in memory and         *)
(* ens_call the last call with the store it started from.                  *)
(***************************************************************************)
MaxDryCalls == 3

PreprocessPickles ==
    {"preprocessed_X", "preprocessed_y", "event_lengths", "label_filters_per_cutoff"}

PreprocessCsvs ==
    {"csv_X", "csv_y", "csv_event_lengths", "csv_label_filters_per_cutoff"}

SegPickles ==
    {"seg_breakpoints", "seg_scores", "seg_segment_means", "seg_predictions", "seg_model"}

ADPickles == {"ad_scores", "ad_values", "ad_predictions", "ad_model"}

EnsPickles == {"ens_scores", "ens_values", "ens_predictions", "ens_model"}

DryFiles == PreprocessPickles \cup PreprocessCsvs \cup SegPickles \cup ADPickles \cup EnsPickles

\* folders: whether the ensemble's scores_folder and predictions_folder exist
EmptyDryStore == [folders |-> FALSE, files |-> [f \in DryFiles |-> NoFile]]

Exists(store, f) == store.files[f].exists

\* with open(path, 'wb') as handle: pickle.dump(..., handle), for every path of names
Dump(store, names, n) ==
    [store EXCEPT !.files = [f \in DryFiles |-> IF f \in names THEN File(<<n>>) ELSE @[f]]]

DryReturned(store, self) == [files |-> store, self |-> self, raised |-> FALSE]

DryRaised(store, self) == [files |-> store, self |-> self, raised |-> TRUE]

\* preprocess_per_batch_and_write: each of the three stages recalculates when
\* preprocessing_overwrite is set or its pickle is missing, and writes the
\* result unless dry_run; csvs are the files save_dataframe_list wrote
preprocess_per_batch_and_write(store, n, preprocessing_overwrite, write_csv_intermediates, dry_run, csvs) ==
    Dump(store,
         (IF (preprocessing_overwrite \/ ~Exists(store, "preprocessed_X")) /\ ~dry_run
          THEN {"preprocessed_X", "preprocessed_y"} ELSE {})
         \cup
         (IF (preprocessing_overwrite \/ ~Exists(store, "event_lengths")) /\ ~dry_run
          THEN {"event_lengths"} ELSE {})
         \cup
         (IF (preprocessing_overwrite \/ ~Exists(store, "label_filters_per_cutoff")) /\ ~dry_run
          THEN {"label_filters_per_cutoff"} ELSE {})
         \cup
         (IF write_csv_intermediates /\ ~dry_run THEN csvs ELSE {}),
         n)

\* BinarySegmentation.fit_transform_predict, from "Get predictions from
\* scores" on; calculate_and_set_thresholds raises on an engine without
\* interpolated curves
BS_ftp_predictions_files(store, n, fitted, overwrite, fit, dry_run) ==
    IF Exists(store, "seg_predictions") /\ Exists(store, "seg_model") /\ ~overwrite
    THEN DryReturned(store, TRUE)
    ELSE IF ~fit /\ ~fitted
         THEN DryRaised(store, fitted)
         ELSE DryReturned(
                  Dump(store,
                       IF dry_run THEN {}
                       ELSE {"seg_predictions"} \cup (IF fit THEN {"seg_model"} ELSE {}),
                       n),
                  TRUE)

\* BinarySegmentation.fit_transform_predict: the files it writes
BS_ftp_files(store, n, fitted, overwrite, fit, dry_run) ==
    IF /\ Exists(store, "seg_scores") /\ Exists(store, "seg_breakpoints")
       /\ Exists(store, "seg_segment_means") /\ ~overwrite
    THEN BS_ftp_predictions_files(store, n, fitted, overwrite, fit, dry_run)
    ELSE BS_ftp_predictions_files(
             Dump(store,
                  IF dry_run THEN {}
                  ELSE (IF Exists(store, "seg_breakpoints") /\ ~overwrite
                        THEN {} ELSE {"seg_breakpoints"})
                       \cup {"seg_scores", "seg_segment_means"},
                  n),
             n, fitted, overwrite, fit, dry_run)

\* Basic_ARIMA.fit_transform_predict, from "Calculate predictions from ARIMA
\* model" on; y_vals is unbound when the scores were reloaded
ARIMA_ftp_predictions_files(store, n, fitted, scores_reloaded, overwrite, fit, dry_run, save_predictions, save_arima_vals) ==
    IF Exists(store, "ad_predictions") /\ Exists(store, "ad_model") /\ ~overwrite
    THEN IF save_arima_vals /\ scores_reloaded
         THEN DryRaised(store, TRUE) ELSE DryReturned(store, TRUE)
    ELSE IF ~fit /\ ~Exists(store, "ad_model")
         THEN DryRaised(store, fitted)
         ELSE IF save_arima_vals /\ scores_reloaded
              THEN DryRaised(
                       Dump(store,
                            IF dry_run THEN {}
                            ELSE (IF save_predictions THEN {"ad_predictions"} ELSE {})
                                 \cup (IF fit THEN {"ad_model"} ELSE {}),
                            n),
                       TRUE)
              ELSE DryReturned(
                       Dump(store,
                            IF dry_run THEN {}
                            ELSE (IF save_predictions THEN {"ad_predictions"} ELSE {})
                                 \cup (IF fit THEN {"ad_model"} ELSE {}),
                            n),
                       TRUE)

\* Basic_ARIMA.fit_transform_predict: the files it writes
ARIMA_ftp_files(store, n, fitted, overwrite, fit, dry_run, save_predictions, save_arima_vals) ==
    IF Exists(store, "ad_scores") /\ ~overwrite
    THEN IF ~fit /\ ~fitted
         THEN DryRaised(store, fitted)
         ELSE ARIMA_ftp_predictions_files(store, n, TRUE, TRUE, overwrite, fit,
                                          dry_run, save_predictions, save_arima_vals)
    ELSE ARIMA_ftp_predictions_files(
             Dump(store, IF dry_run THEN {} ELSE {"ad_scores", "ad_values"}, n),
             n, fitted, FALSE, overwrite, fit, dry_run, save_predictions, save_arima_vals)

\* SequentialEnsemble.fit_transform_predict after both engines returned:
\* final_ad_vals is written when save_arima_vals is set, then the results
\* and the ensemble's model unless dry_run; open(..., 'wb') in a folder that
\* does not exist raises FileNotFoundError
Seq_ftp_results_files(store, n, self, dry_run, save_results, save_arima_vals) ==
    IF save_arima_vals /\ ~store.folders
    THEN DryRaised(store, self)
    ELSE DryReturned(
             Dump(store,
                  (IF save_arima_vals THEN {"ens_values"} ELSE {})
                  \cup (IF ~dry_run /\ save_results
                        THEN {"ens_scores", "ens_predictions"} ELSE {})
                  \cup (IF ~dry_run THEN {"ens_model"} ELSE {}),
                  n),
             self)

Seq_ftp_after_AD_files(n, self, a, dry_run, save_results, save_arima_vals) ==
    IF a.raised
    THEN DryRaised(a.files, [self EXCEPT !.anomaly_detection_method = a.self])
    ELSE Seq_ftp_results_files(a.files, n,
             [self EXCEPT !.anomaly_detection_method = a.self],
             dry_run, save_results, save_arima_vals)

Seq_ftp_after_segmenter_files(n, self, g, overwrite, fit, dry_run, save_results, save_arima_vals) ==
    IF g.raised
    THEN DryRaised(g.files, [self EXCEPT !.segmentation_method = g.self])
    ELSE Seq_ftp_after_AD_files(n, [self EXCEPT !.segmentation_method = g.self],
             ARIMA_ftp_files(g.files, n, self.anomaly_detection_method,
                             overwrite, fit, dry_run, FALSE, save_arima_vals),
             dry_run, save_results, save_arima_vals)

\* SequentialEnsemble.fit_transform_predict: the files it writes
Seq_ftp_files(store, n, self, overwrite, fit, dry_run, save_results, save_arima_vals) ==
    IF /\ Exists(store, "ens_scores") /\ Exists(store, "ens_predictions")
       /\ Exists(store, "ens_model") /\ ~overwrite
    THEN DryReturned(store,
             [segmentation_method |-> TRUE, anomaly_detection_method |-> TRUE])
    ELSE Seq_ftp_after_segmenter_files(n, self,
             BS_ftp_files(store, n, self.segmentation_method, overwrite, fit, dry_run),
             overwrite, fit, dry_run, save_results, save_arima_vals)

\* the engines as their constructors leave them: SaveableModel.__init__
\* loads the model pickle when it exists
Seq_init_files(store) ==
    IF Exists(store, "ens_model")
    THEN [segmentation_method |-> TRUE, anomaly_detection_method |-> TRUE]
    ELSE [segmentation_method |-> Exists(store, "seg_model"),
          anomaly_detection_method |-> Exists(store, "ad_model")]

InitDry ==
    /\ PreIdle
    /\ ConcIdle
    /\ FunIdle
    /\ ThrIdle
    /\ SpcIdle
    /\ ens_data = <<>>
    /\ ens_files = EmptyDryStore
    /\ ens = Seq_init_files(EmptyDryStore)
    /\ ens_call = [op |-> "__init__", dry_run |-> FALSE, raised |-> FALSE,
                   before |-> EmptyDryStore]
    /\ ens_calls = 0

DryPreprocess ==
    /\ ens_calls < MaxDryCalls
    /\ \E preprocessing_overwrite \in BOOLEAN, write_csv_intermediates \in BOOLEAN,
          dry_run \in BOOLEAN, csvs \in {{}, PreprocessCsvs} :
          /\ ens_files' = preprocess_per_batch_and_write(ens_files, ens_calls + 1,
                              preprocessing_overwrite, write_csv_intermediates,
                              dry_run, csvs)
          /\ ens_call' = [op |-> "preprocess_per_batch_and_write", dry_run |-> dry_run,
                          raised |-> FALSE, before |-> ens_files]
    /\ ens_calls' = ens_calls + 1
    /\ UNCHANGED <<ens, ens_data, preVars, thrVars, spcVars, concVars, funVars>>

\* fit_transform_predict of the ensemble; transform_predict is the call
\* with fit=False
DryFitTransformPredict ==
    /\ ens_calls < MaxDryCalls
    /\ \E overwrite \in BOOLEAN, fit \in BOOLEAN, dry_run \in BOOLEAN,
          save_results \in BOOLEAN, save_arima_vals \in BOOLEAN :
          \E r \in {Seq_ftp_files(
                        [ens_files EXCEPT !.folders = @ \/ (~dry_run /\ save_results)],
                        ens_calls + 1, ens, overwrite, fit, dry_run,
                        save_results, save_arima_vals)} :
              /\ ens_files' = r.files
              /\ ens' = r.self
              /\ ens_call' = [op |-> "fit_transform_predict", dry_run |-> dry_run,
                              raised |-> r.raised, before |-> ens_files]
    /\ ens_calls' = ens_calls + 1
    /\ UNCHANGED <<ens_data, preVars, thrVars, spcVars, concVars, funVars>>

\* a new process constructs the ensemble again on the same store
DryConstruct ==
    /\ ens_call.op # "__init__"
    /\ ens' = Seq_init_files(ens_files)
    /\ ens_call' = [op |-> "__init__", dry_run |-> FALSE, raised |-> FALSE,
                    before |-> ens_files]
    /\ UNCHANGED <<ens_data, ens_files, ens_calls, preVars, thrVars, spcVars, concVars, funVars>>

NextDry == DryPreprocess \/ DryFitTransformPredict \/ DryConstruct

SpecDry == InitDry /\ [][NextDry]_vars

\* C30: a call of preprocess_per_batch_and_write or of the ensemble's
\* fit_transform_predict with dry_run=True creates and modifies no persisted
\* file, whatever the other flags are.
C30_Original ==
    ens_call.dry_run => ens_files.files = ens_call.before.files

\* the same calls without save_arima_vals written under dry_run: every
\* file other than the ensemble's values.pickle is left alone
C30_AllButValues ==
    ens_call.dry_run =>
        \A f \in DryFiles \ {"ens_values"} :
            ens_files.files[f] = ens_call.before.files[f]

============================================================================
